---- MODULE Spec2Model ----
(***************************************************************************)
(* pod-lifecycle-go: the PodManager coordinator (lifecycle.go), the probe  *)
(* responders (internal/check: httpProbe, existingHTTPProbe, grpcProbe,    *)
(* existingGRPCProbe) and the responder selection (internal/config).       *)
(*                                                                         *)
(* Every goroutine that calls into the library is a thread with a program  *)
(* counter; one step is one atomic operation of the code (an atomic.Bool   *)
(* load or store, a mutex-protected field access, one SetServingStatus     *)
(* call, one channel operation).                                           *)
(***************************************************************************)
EXTENDS Integers, Sequences, FiniteSets, TLC

\* ---------------------------------------------------------------- bounds
MaxStarts   == 2   \* goroutines that call Start / StartContext
MaxSetReady == 1   \* goroutines that call SetReady
MaxConns    == 1   \* client connections held open on one standalone server
MaxCheckers == 2   \* names available to WithChecker
MaxReqs     == 1   \* HTTP probe requests in flight at once
MaxOptions  == 3   \* options passed to one ApplyOptions call

\* a nil *http.Server / *grpc.Server / *health.Server field
Nil == 0

Starters     == 1..MaxStarts
ReadyCallers == (MaxStarts + 1)..(MaxStarts + MaxSetReady)
Threads      == Starters \cup ReadyCallers
\* one server object (and, for gRPC, one health registry) per Start call
Servers      == Starters
\* the health registry NewExistingGRPCProbe creates at construction
ExistingHealth == MaxStarts + 1
Healths      == 1..(MaxStarts + 1)
CheckerNames == 1..MaxCheckers
Slots        == 1..MaxReqs

Services == {"ready", "live", "startup"}
Bindings == {"http", "grpc", "existingHTTP", "existingGRPC"}

\* Checker implementations, by what Check(ctx) does: return nil, return an
\* error, block until ctx is done and return ctx.Err(), never return.
Impls == {"okChecker", "errChecker", "slowChecker", "stuckChecker"}

VARIABLES
  binding,       \* the responder variant NewProbe selected
  checkers,      \* cfg.Checkers: name -> Checker
  ready, shuttingDown, started,   \* PodManager's three atomic.Bool
  pc, loc,       \* per thread: position and locals
  server,        \* httpProbe.server / grpcProbe.server
  health,        \* grpcProbe.health / existingGRPCProbe.health
  hstat, hshut,  \* health.Server: statusMap and shutdown, per registry
  muxRegistered, \* patterns registered on the caller's ServeMux
  lnOwner,       \* the server whose listener holds the probe port
  serving,       \* per server: Serve is accepting on its listener
  inShutdown,    \* per server: Shutdown / GracefulStop / Stop was called
  active,        \* per server: open client connections
  dl,            \* per starter: the drain context's deadline
  gs,            \* per starter: the goroutine running srv.GracefulStop
  startedCalls,  \* how many times the started-callback ran
  req,           \* per slot: one HTTP probe request and its handler
  construction,  \* NewPodManager's call: the port options and the outcome
  rpc,           \* one unary RPC through LoggingUnaryInterceptor
  serveLoop      \* the goroutines running srv.Serve(ln), and cfg.ErrorHandler

vars == <<binding, checkers, ready, shuttingDown, started, pc, loc, server,
          health, hstat, hshut, muxRegistered, lnOwner, serving, inShutdown,
          active, dl, gs, startedCalls, req, construction, rpc, serveLoop>>

\* ------------------------------------------------------------ construction
\* defaultConfig's ports and the range ApplyOptions accepts
DefaultHTTPPort == 8080
DefaultGRPCPort == 50051
DefaultShutdownTimeout == 5
DefaultCheckerTimeout == 2
MinPort == 1
MaxPort == 65535

\* the ports WithHTTPPort / WithGRPCPort are given: both ends of the range
\* and their neighbours
Ports == {-1, 0, MinPort, DefaultHTTPPort, MaxPort, MaxPort + 1, 70000}

\* a port option: <<>> when the option is not given, else <<port>>
PortOption == {<<>>} \cup {<<p>> : p \in Ports}

\* the options of one NewPodManager call (no checkers)
Options ==
  [ CheckMechanism     : {"CheckHTTP", "CheckGRPC"},
    HTTPPort           : PortOption,
    GRPCPort           : PortOption,
    ExistingGRPCServer : BOOLEAN,
    ExistingHTTPMux    : BOOLEAN ]

\* Config{}: what ApplyOptions returns with an error
ZeroConfig ==
  [CheckMechanism |-> "CheckHTTP", HTTPPort |-> 0, GRPCPort |-> 0,
   ExistingGRPCServer |-> FALSE, ExistingHTTPMux |-> FALSE]

\* an ApplyOptions that checks the port of the chosen mechanism only
ApplyOptionsChosenPort(o) ==
  LET http == IF o.HTTPPort = <<>> THEN DefaultHTTPPort ELSE o.HTTPPort[1]
      grpc == IF o.GRPCPort = <<>> THEN DefaultGRPCPort ELSE o.GRPCPort[1]
      cfg  == [CheckMechanism |-> o.CheckMechanism, HTTPPort |-> http,
               GRPCPort |-> grpc,
               ExistingGRPCServer |-> o.ExistingGRPCServer,
               ExistingHTTPMux |-> o.ExistingHTTPMux]
  IN  IF o.CheckMechanism = "CheckHTTP"
      THEN IF http < MinPort \/ http > MaxPort
           THEN [err |-> "invalid HTTPPort", cfg |-> ZeroConfig]
           ELSE [err |-> "", cfg |-> cfg]
      ELSE IF grpc < MinPort \/ grpc > MaxPort
           THEN [err |-> "invalid GRPCPort", cfg |-> ZeroConfig]
           ELSE [err |-> "", cfg |-> cfg]

\* ApplyOptions: the options applied to defaultConfig, then the two range
\* checks; an error comes with the zero Config.
ApplyOptions(o) ==
  LET http == IF o.HTTPPort = <<>> THEN DefaultHTTPPort ELSE o.HTTPPort[1]
      grpc == IF o.GRPCPort = <<>> THEN DefaultGRPCPort ELSE o.GRPCPort[1]
  IN  IF http < MinPort \/ http > MaxPort
      THEN [err |-> "invalid HTTPPort", cfg |-> ZeroConfig]
      ELSE IF grpc < MinPort \/ grpc > MaxPort
      THEN [err |-> "invalid GRPCPort", cfg |-> ZeroConfig]
      ELSE [err |-> "",
            cfg |-> [CheckMechanism |-> o.CheckMechanism, HTTPPort |-> http,
                     GRPCPort |-> grpc,
                     ExistingGRPCServer |-> o.ExistingGRPCServer,
                     ExistingHTTPMux |-> o.ExistingHTTPMux]]

\* the record of a NewPodManager call: given is <<HTTPPort option, GRPCPort
\* option>>, sel is <<mechanism, gRPC server given, mux given>> as the
\* options said it (<<>> for a manager that is taken as constructed),
\* HTTPPort and GRPCPort are the ports of the Config in use
Constructed(st, err, given, sel, cfg) ==
  [st |-> st, err |-> err, given |-> given, sel |-> sel,
   HTTPPort |-> cfg.HTTPPort, GRPCPort |-> cfg.GRPCPort]

\* a NewProbe that looks at the mux before the gRPC server
NewProbeMuxFirst(c) ==
  IF c.ExistingHTTPMux THEN "existingHTTP"
  ELSE IF c.ExistingGRPCServer THEN "existingGRPC"
  ELSE IF c.CheckMechanism = "CheckGRPC" THEN "grpc"
  ELSE "http"

\* NewProbe: the precedence of the responder variants.
NewProbe(c) ==
  IF c.ExistingGRPCServer THEN "existingGRPC"
  ELSE IF c.ExistingHTTPMux THEN "existingHTTP"
  ELSE IF c.CheckMechanism = "CheckGRPC" THEN "grpc"
  ELSE "http"

\* the registries WithChecker can build
Registries == UNION {[S -> Impls] : S \in SUBSET CheckerNames}

Configs(regs) ==
  [ CheckMechanism     : {"CheckHTTP", "CheckGRPC"},
    HTTPPort           : {DefaultHTTPPort},
    GRPCPort           : {DefaultGRPCPort},
    ExistingGRPCServer : BOOLEAN,
    ExistingHTTPMux    : BOOLEAN,
    ErrorHandler       : {FALSE},
    Checkers           : regs ]

InitLoc == [kind |-> "none", hs |-> Nil, r |-> FALSE, s |-> FALSE, i |-> 0,
            srv |-> Nil, k |-> "none", sel |-> "none", ret |-> "none",
            readyAtTrigger |-> FALSE, alone |-> FALSE]

\* a free request slot
NoReq == [st |-> "idle", path |-> "none", method |-> "none", code |-> 0,
          body |-> <<>>, obsReady |-> FALSE, obsSd |-> FALSE,
          sdAtArrival |-> FALSE, startedAtArrival |-> FALSE,
          readyAtArrival |-> FALSE,
          cancelled |-> "",
          ev |-> <<>>, ch |-> <<>>, out |-> <<>>, n |-> 0]

\* no serving loop has returned; handler: cfg.ErrorHandler is not nil
NoServe(handler) ==
  [handler |-> handler, ret |-> [s \in Servers |-> "none"],
   delivered |-> [s \in Servers |-> FALSE]]

\* no RPC in the interceptor
NoRPC == [st |-> "idle", method |-> <<>>, hresp |-> "none", herr |-> "none",
          calls |-> 0, duration |-> 0, logs |-> <<>>,
          resp |-> "none", err |-> "none"]

\* NewPodManager on a valid Config: the flags are zero-valued atomic.Bool,
\* the responder has no server yet (the attached gRPC responder already owns
\* its health registry).
NewPodManager(c) ==
  /\ binding = NewProbe(c)
  /\ checkers = c.Checkers
  /\ ready = FALSE /\ shuttingDown = FALSE /\ started = FALSE
  /\ pc = [t \in Threads |-> "idle"]
  /\ loc = [t \in Threads |-> InitLoc]
  /\ server = Nil
  /\ health = IF NewProbe(c) = "existingGRPC" THEN ExistingHealth ELSE Nil
  /\ hstat = [h \in Healths |-> [s \in Services |-> "NONE"]]
  /\ hshut = [h \in Healths |-> FALSE]
  /\ muxRegistered = FALSE
  /\ lnOwner = Nil
  /\ serving = [s \in Servers |-> FALSE]
  /\ inShutdown = [s \in Servers |-> FALSE]
  /\ active = [s \in Servers |-> 0]
  /\ dl = [p \in Starters |-> "unset"]
  /\ gs = [p \in Starters |-> "none"]
  /\ startedCalls = 0
  /\ req = [r \in Slots |-> NoReq]
  /\ rpc = NoRPC
  /\ serveLoop = NoServe(c.ErrorHandler)
  /\ construction = Constructed("manager", "", <<<<>>, <<>>>>, <<>>, c)

\* no manager, no responder: every variable but the construction record
NoManager ==
  /\ binding = "none"
  /\ checkers = <<>>
  /\ ready = FALSE /\ shuttingDown = FALSE /\ started = FALSE
  /\ pc = [t \in Threads |-> "idle"]
  /\ loc = [t \in Threads |-> InitLoc]
  /\ server = Nil
  /\ health = Nil
  /\ hstat = [h \in Healths |-> [s \in Services |-> "NONE"]]
  /\ hshut = [h \in Healths |-> FALSE]
  /\ muxRegistered = FALSE
  /\ lnOwner = Nil
  /\ serving = [s \in Servers |-> FALSE]
  /\ inShutdown = [s \in Servers |-> FALSE]
  /\ active = [s \in Servers |-> 0]
  /\ dl = [p \in Starters |-> "unset"]
  /\ gs = [p \in Starters |-> "none"]
  /\ startedCalls = 0
  /\ req = [r \in Slots |-> NoReq]
  /\ rpc = NoRPC
  /\ serveLoop = NoServe(FALSE)

\* before NewPodManager is called
Unconstructed ==
  /\ NoManager
  /\ construction = Constructed("pending", "", <<<<>>, <<>>>>, <<>>, ZeroConfig)

\* NewPodManager(opts...): ApplyOptions, then on success NewProbe and the
\* manager (its flags zero); on an error nil and the error.
NewPodManagerCall ==
  /\ construction.st = "pending"
  /\ \E o \in Options :
       LET a == ApplyOptions(o)
           given == <<o.HTTPPort, o.GRPCPort>>
           sel   == <<o.CheckMechanism, o.ExistingGRPCServer,
                      o.ExistingHTTPMux>>
       IN  IF a.err # ""
           THEN /\ construction' = Constructed("error", a.err, given, sel, a.cfg)
                /\ UNCHANGED <<binding, health>>
           ELSE /\ construction' = Constructed("manager", "", given, sel, a.cfg)
                /\ binding' = NewProbe(a.cfg)
                /\ health' = IF NewProbe(a.cfg) = "existingGRPC"
                              THEN ExistingHealth ELSE Nil
  /\ UNCHANGED <<checkers, ready, shuttingDown, started, pc, loc, server,
                 hstat, hshut, muxRegistered, lnOwner, serving, inShutdown,
                 active, dl, gs, startedCalls, req, rpc, serveLoop>>

\* a manager without checkers, every responder variant
Init == \E c \in Configs({<<>>}) : NewPodManager(c)

\* a manager with any registry, every responder variant
InitProbe == \E c \in Configs(Registries) : NewPodManager(c)

\* ------------------------------------------------------------------ helpers
Goto(t, l) == pc' = [pc EXCEPT ![t] = l]

Standalone == binding \in {"http", "grpc"}
IsGRPC     == binding \in {"grpc", "existingGRPC"}

\* a SetServingStatus that still writes to a registry that was shut down
SetServingStatusAfterShutdown(hs, service, status) ==
  hstat' = [hstat EXCEPT ![hs][service] = status]

\* health.Server.SetServingStatus: ignored once the registry was shut down.
SetServingStatus(hs, service, status) ==
  hstat' = IF hshut[hs] THEN hstat
           ELSE [hstat EXCEPT ![hs][service] = status]

\* an applyState that leaves the startup service as it is while shutting down
ApplyCallKeepStartup(r, s, i) ==
  IF s THEN
    CASE i = 1 -> <<"ready", "NOT_SERVING">>
      [] OTHER -> <<"live", "NOT_SERVING">>
  ELSE
    CASE i = 1 -> <<"ready", IF r THEN "SERVING" ELSE "NOT_SERVING">>
      [] OTHER -> <<"live", "SERVING">>

\* The i-th SetServingStatus call applyState makes for (ready, shuttingDown).
\* <<service, status>>; applyState makes ApplyLen calls in all.
ApplyCall(r, s, i) ==
  IF s THEN
    CASE i = 1 -> <<"ready", "NOT_SERVING">>
      [] i = 2 -> <<"live", "NOT_SERVING">>
      [] OTHER -> <<"startup", "NOT_SERVING">>
  ELSE
    CASE i = 1 -> <<"ready", IF r THEN "SERVING" ELSE "NOT_SERVING">>
      [] OTHER -> <<"live", "SERVING">>

ApplyLen(s) == IF s THEN 3 ELSE 2

\* History: a write by thread t to registry hs falls into the applyState of
\* every other thread that has begun writing to hs; l is loc after t's own
\* update.  The field alone records that an applyState ran undisturbed.
Disturb(l, t, hs) ==
  [u \in Threads |->
     IF u # t /\ pc[u] = "applyState" /\ l[u].hs = hs /\ l[u].i > 1
     THEN [l[u] EXCEPT !.alone = FALSE]
     ELSE l[u]]

\* closing a server's listener: net/http and grpc close the listeners a
\* running Serve registered; the port is free again.
ListenerClosed(s) == IF lnOwner = s THEN Nil ELSE lnOwner

UnchangedFlags  == UNCHANGED <<ready, shuttingDown, started, startedCalls>>
UnchangedCfg    ==
  UNCHANGED <<binding, checkers, req, construction, rpc, serveLoop>>
UnchangedHealth == UNCHANGED <<health, hstat, hshut>>
UnchangedNet    == UNCHANGED <<lnOwner, serving, inShutdown, active>>
UnchangedDrain  == UNCHANGED <<dl, gs>>

\* ----------------------------------------------------- PodManager.Start
\* Start and StartContext share their code up to the wait: both call
\* pm.probe.Start(pm, func() { pm.started.Store(true) }).

\* httpProbe.Start up to net.Listen: builds the mux and the server and
\* records the server in h.server before it listens.
HTTPStartSetServer(p) ==
  /\ pc[p] = "idle" /\ p \in Starters /\ binding = "http"
  /\ server' = p
  /\ Goto(p, "listen")
  /\ UnchangedFlags /\ UnchangedCfg /\ UnchangedHealth /\ UnchangedNet
  /\ UnchangedDrain /\ UNCHANGED <<loc, muxRegistered>>

\* grpcProbe.Start up to net.Listen: a new health registry and a new server
\* replace g.health and g.server under the mutex.
GRPCStartSetServer(p) ==
  /\ pc[p] = "idle" /\ p \in Starters /\ binding = "grpc"
  /\ server' = p
  /\ health' = p
  /\ Goto(p, "listen")
  /\ UnchangedFlags /\ UnchangedCfg /\ UnchangedNet /\ UnchangedDrain
  /\ UNCHANGED <<loc, hstat, hshut, muxRegistered>>

\* a Start that runs the started-callback before it reports the bind error
ListenFailMarksStarted(p) ==
  /\ pc[p] = "listen"
  /\ \E free \in BOOLEAN :
       IF free /\ lnOwner = Nil
       THEN /\ lnOwner' = p
            /\ Goto(p, "onStarted")
            /\ loc' = loc
            /\ UNCHANGED <<started, startedCalls>>
       ELSE /\ lnOwner' = lnOwner
            /\ Goto(p, "returned")
            /\ loc' = [loc EXCEPT ![p].ret = "bindError"]
            /\ started' = TRUE
            /\ startedCalls' = startedCalls + 1
  /\ UNCHANGED <<ready, shuttingDown>>
  /\ UnchangedCfg /\ UnchangedHealth /\ UnchangedDrain
  /\ UNCHANGED <<server, muxRegistered, serving, inShutdown, active>>

\* net.Listen on the configured port: fails when the port is held, by a
\* listener of this responder or by another process.
Listen(p) ==
  /\ pc[p] = "listen"
  /\ \E free \in BOOLEAN :
       IF free /\ lnOwner = Nil
       THEN /\ lnOwner' = p
            /\ Goto(p, "onStarted")
            /\ loc' = loc
       ELSE /\ lnOwner' = lnOwner
            /\ Goto(p, "returned")
            /\ loc' = [loc EXCEPT ![p].ret = "bindError"]
  /\ UnchangedFlags /\ UnchangedCfg /\ UnchangedHealth /\ UnchangedDrain
  /\ UNCHANGED <<server, muxRegistered, serving, inShutdown, active>>

\* existingHTTPProbe.Start: the three HandleFunc calls on the caller's mux.
\* ServeMux.HandleFunc panics when the pattern is already registered.
ExistingHTTPRegister(p) ==
  /\ pc[p] = "idle" /\ p \in Starters /\ binding = "existingHTTP"
  /\ IF muxRegistered
     THEN /\ Goto(p, "panicked")
          /\ UNCHANGED muxRegistered
     ELSE /\ Goto(p, "onStarted")
          /\ muxRegistered' = TRUE
  /\ UnchangedFlags /\ UnchangedCfg /\ UnchangedHealth /\ UnchangedNet
  /\ UnchangedDrain /\ UNCHANGED <<loc, server>>

\* existingGRPCProbe.Start: nothing to bind, the callback comes first.
ExistingGRPCStart(p) ==
  /\ pc[p] = "idle" /\ p \in Starters /\ binding = "existingGRPC"
  /\ Goto(p, "onStarted")
  /\ UnchangedFlags /\ UnchangedCfg /\ UnchangedHealth /\ UnchangedNet
  /\ UnchangedDrain /\ UNCHANGED <<loc, server, muxRegistered>>

\* where probe.Start goes on after the started-callback
AfterOnStarted ==
  CASE binding = "http"         -> "serve"
    [] binding = "existingHTTP" -> "waitTrigger"
    [] OTHER                    -> "startupServing"

\* a started-callback that also marks the pod ready
OnStartedSetsReady(p) ==
  /\ pc[p] = "onStarted"
  /\ started' = TRUE
  /\ ready' = TRUE
  /\ startedCalls' = startedCalls + 1
  /\ Goto(p, AfterOnStarted)
  /\ UNCHANGED <<shuttingDown, loc>>
  /\ UnchangedCfg /\ UnchangedHealth /\ UnchangedNet /\ UnchangedDrain
  /\ UNCHANGED <<server, muxRegistered>>

\* a started-callback that does not store the started flag
OnStartedNoStore(p) ==
  /\ pc[p] = "onStarted"
  /\ startedCalls' = startedCalls + 1
  /\ Goto(p, AfterOnStarted)
  /\ UNCHANGED <<started, ready, shuttingDown, loc>>
  /\ UnchangedCfg /\ UnchangedHealth /\ UnchangedNet /\ UnchangedDrain
  /\ UNCHANGED <<server, muxRegistered>>

\* onStarted(): func() { pm.started.Store(true) }
OnStarted(p) ==
  /\ pc[p] = "onStarted"
  /\ started' = TRUE
  /\ startedCalls' = startedCalls + 1
  /\ Goto(p, AfterOnStarted)
  /\ UNCHANGED <<ready, shuttingDown, loc>>
  /\ UnchangedCfg /\ UnchangedHealth /\ UnchangedNet /\ UnchangedDrain
  /\ UNCHANGED <<server, muxRegistered>>

\* g.health.SetServingStatus(serviceStartup, SERVING): g.health is read
\* without the mutex, so it is whatever registry the field holds now.
StartupServing(p) ==
  /\ pc[p] = "startupServing"
  /\ SetServingStatus(health, "startup", "SERVING")
  /\ loc' = Disturb(loc, p, health)
  /\ Goto(p, "loadReady")
  /\ UnchangedFlags /\ UnchangedCfg /\ UnchangedNet /\ UnchangedDrain
  /\ UNCHANGED <<server, health, hshut, muxRegistered>>

\* a Start that pushes "not ready" whatever the ready flag holds
StartLoadReadyUnset(p) ==
  /\ pc[p] = "loadReady"
  /\ loc' = [loc EXCEPT ![p].hs = health, ![p].r = FALSE]
  /\ Goto(p, "loadShuttingDown")
  /\ UnchangedFlags /\ UnchangedCfg /\ UnchangedHealth /\ UnchangedNet
  /\ UnchangedDrain /\ UNCHANGED <<server, muxRegistered>>

\* the arguments of applyState(hs, state.Ready(), state.ShuttingDown()):
\* the registry, then the first load
StartLoadReady(p) ==
  /\ pc[p] = "loadReady"
  /\ loc' = [loc EXCEPT ![p].hs = health, ![p].r = ready]
  /\ Goto(p, "loadShuttingDown")
  /\ UnchangedFlags /\ UnchangedCfg /\ UnchangedHealth /\ UnchangedNet
  /\ UnchangedDrain /\ UNCHANGED <<server, muxRegistered>>

\* ... then the second load; applyState follows, then Serve.
StartLoadShuttingDown(p) ==
  /\ pc[p] = "loadShuttingDown"
  /\ loc' = [loc EXCEPT ![p].s = shuttingDown, ![p].i = 1,
                        ![p].alone = TRUE,
                        ![p].k = IF binding = "grpc" THEN "serve"
                                 ELSE "waitTrigger"]
  /\ Goto(p, "applyState")
  /\ UnchangedFlags /\ UnchangedCfg /\ UnchangedHealth /\ UnchangedNet
  /\ UnchangedDrain /\ UNCHANGED <<server, muxRegistered>>

\* applyState, one SetServingStatus call per step (each takes the
\* registry's own mutex; applyState as a whole holds no lock).
ApplyState(t) ==
  /\ pc[t] = "applyState"
  /\ LET c == ApplyCall(loc[t].r, loc[t].s, loc[t].i)
     IN  SetServingStatus(loc[t].hs, c[1], c[2])
  /\ IF loc[t].i < ApplyLen(loc[t].s)
     THEN /\ loc' = Disturb([loc EXCEPT ![t].i = @ + 1], t, loc[t].hs)
          /\ pc' = pc
     ELSE /\ loc' = Disturb([loc EXCEPT ![t].i = 0], t, loc[t].hs)
          /\ Goto(t, loc[t].k)
  /\ UnchangedFlags /\ UnchangedCfg /\ UnchangedNet /\ UnchangedDrain
  /\ UNCHANGED <<server, health, hshut, muxRegistered>>

\* go srv.Serve(ln); return nil.  Serve on a server that was already shut
\* down returns ErrServerClosed / ErrServerStopped and closes the listener.
Serve(p) ==
  /\ pc[p] = "serve"
  /\ IF inShutdown[p]
     THEN /\ lnOwner' = ListenerClosed(p)
          /\ serving' = serving
     ELSE /\ lnOwner' = lnOwner
          /\ serving' = [serving EXCEPT ![p] = TRUE]
  /\ Goto(p, "waitTrigger")
  /\ UnchangedFlags /\ UnchangedCfg /\ UnchangedHealth /\ UnchangedDrain
  /\ UNCHANGED <<loc, server, muxRegistered, inShutdown, active>>

\* --------------------------------------------------- PodManager.SetReady
\* pm.ready.Store(true)
SetReadyStore(q) ==
  /\ pc[q] = "idle" /\ q \in ReadyCallers
  /\ ready' = TRUE
  /\ Goto(q, "setReadyLoad")
  /\ UNCHANGED <<shuttingDown, started, startedCalls, loc>>
  /\ UnchangedCfg /\ UnchangedHealth /\ UnchangedNet /\ UnchangedDrain
  /\ UNCHANGED <<server, muxRegistered>>

\* the argument pm.shuttingDown.Load() of pm.probe.SetState(true, ...)
SetReadyLoad(q) ==
  /\ pc[q] = "setReadyLoad"
  /\ loc' = [loc EXCEPT ![q].r = TRUE, ![q].s = shuttingDown,
                        ![q].k = "returned"]
  /\ Goto(q, "setState")
  /\ UnchangedFlags /\ UnchangedCfg /\ UnchangedHealth /\ UnchangedNet
  /\ UnchangedDrain /\ UNCHANGED <<server, muxRegistered>>

\* probe.SetState(ready, shuttingDown): a no-op for the HTTP responders;
\* the gRPC responders read their registry under the mutex (the standalone
\* one returns when it is nil) and call applyState outside the mutex.
SetState(t) ==
  /\ pc[t] = "setState"
  /\ IF IsGRPC /\ health # Nil
     THEN /\ loc' = [loc EXCEPT ![t].hs = health, ![t].i = 1,
                                 ![t].alone = TRUE]
          /\ Goto(t, "applyState")
     ELSE /\ loc' = loc
          /\ Goto(t, loc[t].k)
  /\ UnchangedFlags /\ UnchangedCfg /\ UnchangedHealth /\ UnchangedNet
  /\ UnchangedDrain /\ UNCHANGED <<server, muxRegistered>>

\* --------------------------------------------------- PodManager.shutdown
\* The wait ends: Start receives SIGTERM / SIGINT from sigCh, StartContext
\* sees ctx.Done().  The two entry points differ only from here on (the wait
\* and the value returned), so which one the call was is recorded here,
\* with the value the ready flag has at this moment (history only).
Trigger(p) ==
  /\ pc[p] = "waitTrigger"
  /\ \E kind \in {"Start", "StartContext"} :
       loc' = [loc EXCEPT ![p].kind = kind, ![p].readyAtTrigger = ready]
  /\ Goto(p, "shutdownStore")
  /\ UnchangedFlags /\ UnchangedCfg /\ UnchangedHealth /\ UnchangedNet
  /\ UnchangedDrain /\ UNCHANGED <<server, muxRegistered>>

\* a shutdown that clears the flag again when it returns
ReturnClearsShuttingDown(p) ==
  /\ pc[p] = "return"
  /\ loc' = [loc EXCEPT ![p].ret = IF loc[p].kind = "Start" THEN "nil"
                                   ELSE "ctx.Err()"]
  /\ dl' = [dl EXCEPT ![p] = "released"]
  /\ shuttingDown' = FALSE
  /\ Goto(p, "returned")
  /\ UNCHANGED <<ready, started, startedCalls>>
  /\ UnchangedCfg /\ UnchangedHealth /\ UnchangedNet
  /\ UNCHANGED <<server, muxRegistered, gs>>

\* a shutdown that takes the pod's readiness back
ShutdownStoreClearsReady(p) ==
  /\ pc[p] = "shutdownStore"
  /\ shuttingDown' = TRUE
  /\ ready' = FALSE
  /\ Goto(p, "shutdownLoad")
  /\ UNCHANGED <<started, startedCalls, loc>>
  /\ UnchangedCfg /\ UnchangedHealth /\ UnchangedNet /\ UnchangedDrain
  /\ UNCHANGED <<server, muxRegistered>>

\* a shutdown that does not record that it began
ShutdownStoreSkipped(p) ==
  /\ pc[p] = "shutdownStore"
  /\ Goto(p, "shutdownLoad")
  /\ UnchangedFlags /\ UnchangedCfg /\ UnchangedHealth /\ UnchangedNet
  /\ UnchangedDrain /\ UNCHANGED <<loc, server, muxRegistered>>

\* pm.shuttingDown.Store(true)
ShutdownStore(p) ==
  /\ pc[p] = "shutdownStore"
  /\ shuttingDown' = TRUE
  /\ Goto(p, "shutdownLoad")
  /\ UNCHANGED <<ready, started, startedCalls, loc>>
  /\ UnchangedCfg /\ UnchangedHealth /\ UnchangedNet /\ UnchangedDrain
  /\ UNCHANGED <<server, muxRegistered>>

\* the argument pm.ready.Load() of pm.probe.SetState(..., true)
ShutdownLoad(p) ==
  /\ pc[p] = "shutdownLoad"
  /\ loc' = [loc EXCEPT ![p].r = ready, ![p].s = TRUE, ![p].k = "withTimeout"]
  /\ Goto(p, "setState")
  /\ UnchangedFlags /\ UnchangedCfg /\ UnchangedHealth /\ UnchangedNet
  /\ UnchangedDrain /\ UNCHANGED <<server, muxRegistered>>

\* context.WithTimeout(context.Background(), pm.shutdownTimeout)
WithTimeout(p) ==
  /\ pc[p] = "withTimeout"
  /\ dl' = [dl EXCEPT ![p] = "running"]
  /\ Goto(p, "probeShutdown")
  /\ UnchangedFlags /\ UnchangedCfg /\ UnchangedHealth /\ UnchangedNet
  /\ UNCHANGED <<loc, server, muxRegistered, gs>>

\* the drain deadline passes (at once when the timeout is not positive)
DeadlineElapses(p) ==
  /\ dl[p] = "running"
  /\ dl' = [dl EXCEPT ![p] = "elapsed"]
  /\ UnchangedFlags /\ UnchangedCfg /\ UnchangedHealth /\ UnchangedNet
  /\ UNCHANGED <<pc, loc, server, muxRegistered, gs>>

\* a Shutdown has run to its end: a call on the responder itself, or the
\* one at the end of a Start / StartContext
Completed(o) ==
  /\ pc[o] = "returned"
  /\ loc[o].ret \in {"nil", "ctx.Err()", "void"}

\* no Start is under way or has failed: every other caller has not called
\* yet, has a Shutdown behind it, or is in a Shutdown of its own
NoStartPending(p) ==
  \A t \in Starters \ {p} :
     Completed(t) \/ pc[t] = "idle" \/ loc[t].kind = "Shutdown"

\* Server.Shutdown(ctx) called on the responder itself (as the tests of
\* internal/check do), with a context that has a deadline; k records
\* whether the call follows a Shutdown that has run to its end, with no
\* Start since.
ShutdownCall(p) ==
  /\ pc[p] = "idle" /\ p \in Starters
  /\ loc' = [loc EXCEPT ![p].kind = "Shutdown",
                        ![p].k = IF /\ \E o \in Starters \ {p} : Completed(o)
                                    /\ NoStartPending(p)
                                 THEN "second" ELSE "first"]
  /\ dl' = [dl EXCEPT ![p] = "running"]
  /\ Goto(p, "probeShutdown")
  /\ UnchangedFlags /\ UnchangedCfg /\ UnchangedHealth /\ UnchangedNet
  /\ UNCHANGED <<server, muxRegistered, gs>>

\* a health.Server.Shutdown that switches the registry back on when it is
\* already shut down
HealthShutdownToggles(hs) ==
  /\ hshut' = [hshut EXCEPT ![hs] = ~hshut[hs]]
  /\ hstat' = [hstat EXCEPT ![hs] =
                 [s \in Services |-> IF hstat[hs][s] = "NONE" THEN "NONE"
                                     ELSE IF hshut[hs] THEN "SERVING"
                                     ELSE "NOT_SERVING"]]

\* health.Server.Shutdown: every registered service becomes NOT_SERVING and
\* later SetServingStatus calls are ignored.
HealthShutdown(hs) ==
  /\ hshut' = [hshut EXCEPT ![hs] = TRUE]
  /\ hstat' = [hstat EXCEPT ![hs] =
                 [s \in Services |-> IF hstat[hs][s] = "NONE" THEN "NONE"
                                     ELSE "NOT_SERVING"]]

\* a Shutdown that also takes the probe patterns off the caller's mux
ProbeShutdownClosesMux(p) ==
  /\ pc[p] = "probeShutdown"
  /\ CASE binding = "http" /\ server # Nil ->
            /\ loc' = [loc EXCEPT ![p].srv = server]
            /\ inShutdown' = [inShutdown EXCEPT ![server] = TRUE]
            /\ serving' = [serving EXCEPT ![server] = FALSE]
            /\ lnOwner' = IF serving[server] THEN ListenerClosed(server)
                          ELSE lnOwner
            /\ Goto(p, "httpPoll")
            /\ UNCHANGED <<gs, hstat, hshut, muxRegistered>>
       [] binding = "grpc" /\ server # Nil ->
            /\ loc' = [loc EXCEPT ![p].srv = server]
            /\ gs' = [gs EXCEPT ![p] = "spawned"]
            /\ Goto(p, "grpcSelect")
            /\ UNCHANGED <<inShutdown, serving, lnOwner, hstat, hshut,
                           muxRegistered>>
       [] binding = "existingGRPC" ->
            /\ HealthShutdown(health)
            /\ loc' = Disturb(loc, p, health)
            /\ Goto(p, "return")
            /\ UNCHANGED <<gs, inShutdown, serving, lnOwner, muxRegistered>>
       [] OTHER ->
            /\ Goto(p, "return")
            /\ muxRegistered' = FALSE
            /\ UNCHANGED <<loc, gs, inShutdown, serving, lnOwner, hstat, hshut>>
  /\ UnchangedFlags /\ UnchangedCfg
  /\ UNCHANGED <<server, health, active, dl>>

\* probe.Shutdown(ctx), first step.
\*   httpProbe: srv := h.server; nil returns; srv.Shutdown(ctx) closes the
\*     listener and starts polling for idle connections.
\*   grpcProbe: srv := g.server; nil returns; go srv.GracefulStop().
\*   existingHTTPProbe: nothing.  existingGRPCProbe: hs.Shutdown().
ProbeShutdown(p) ==
  /\ pc[p] = "probeShutdown"
  /\ CASE binding = "http" /\ server # Nil ->
            /\ loc' = [loc EXCEPT ![p].srv = server]
            /\ inShutdown' = [inShutdown EXCEPT ![server] = TRUE]
            /\ serving' = [serving EXCEPT ![server] = FALSE]
            /\ lnOwner' = IF serving[server] THEN ListenerClosed(server)
                          ELSE lnOwner
            /\ Goto(p, "httpPoll")
            /\ UNCHANGED <<gs, hstat, hshut>>
       [] binding = "grpc" /\ server # Nil ->
            /\ loc' = [loc EXCEPT ![p].srv = server]
            /\ gs' = [gs EXCEPT ![p] = "spawned"]
            /\ Goto(p, "grpcSelect")
            /\ UNCHANGED <<inShutdown, serving, lnOwner, hstat, hshut>>
       [] binding = "existingGRPC" ->
            /\ HealthShutdown(health)
            /\ loc' = Disturb(loc, p, health)
            /\ Goto(p, "return")
            /\ UNCHANGED <<gs, inShutdown, serving, lnOwner>>
       [] OTHER ->
            /\ Goto(p, "return")
            /\ UNCHANGED <<loc, gs, inShutdown, serving, lnOwner, hstat, hshut>>
  /\ UnchangedFlags /\ UnchangedCfg
  /\ UNCHANGED <<server, health, muxRegistered, active, dl>>

\* a Shutdown that waits for the connections without a deadline
\* (srv.Shutdown(context.Background()))
HTTPPollNoDeadline(p) ==
  /\ pc[p] = "httpPoll"
  /\ active[loc[p].srv] = 0
  /\ loc' = [loc EXCEPT ![p].sel = "done"]
  /\ Goto(p, "return")
  /\ UnchangedFlags /\ UnchangedCfg /\ UnchangedHealth /\ UnchangedNet
  /\ UnchangedDrain /\ UNCHANGED <<server, muxRegistered>>

\* http.Server.Shutdown's loop: returns nil once no connection is active;
\* otherwise returns ctx.Err() once the context is done.  It closes no
\* active connection.
HTTPPoll(p) ==
  /\ pc[p] = "httpPoll"
  /\ IF active[loc[p].srv] = 0
     THEN loc' = [loc EXCEPT ![p].sel = "done"]
     ELSE /\ dl[p] = "elapsed"
          /\ loc' = [loc EXCEPT ![p].sel = "ctx.Done"]
  /\ Goto(p, "return")
  /\ UnchangedFlags /\ UnchangedCfg /\ UnchangedHealth /\ UnchangedNet
  /\ UnchangedDrain /\ UNCHANGED <<server, muxRegistered>>

\* srv.GracefulStop() in its goroutine: closes the listener, refuses new
\* connections ...
GracefulStopBegin(p) ==
  /\ gs[p] = "spawned"
  /\ LET s == loc[p].srv IN
       /\ inShutdown' = [inShutdown EXCEPT ![s] = TRUE]
       /\ lnOwner' = IF serving[s] THEN ListenerClosed(s) ELSE lnOwner
       /\ serving' = [serving EXCEPT ![s] = FALSE]
  /\ gs' = [gs EXCEPT ![p] = "waiting"]
  /\ UnchangedFlags /\ UnchangedCfg /\ UnchangedHealth
  /\ UNCHANGED <<pc, loc, server, muxRegistered, active, dl>>

\* ... and returns once every connection is gone; then close(done).
GracefulStopDone(p) ==
  /\ gs[p] = "waiting"
  /\ active[loc[p].srv] = 0
  /\ gs' = [gs EXCEPT ![p] = "done"]
  /\ UnchangedFlags /\ UnchangedCfg /\ UnchangedHealth /\ UnchangedNet
  /\ UNCHANGED <<pc, loc, server, muxRegistered, dl>>

\* select { case <-done: ... }
GRPCSelectDone(p) ==
  /\ pc[p] = "grpcSelect"
  /\ gs[p] = "done"
  /\ loc' = [loc EXCEPT ![p].sel = "done"]
  /\ Goto(p, "return")
  /\ UnchangedFlags /\ UnchangedCfg /\ UnchangedHealth /\ UnchangedNet
  /\ UnchangedDrain /\ UNCHANGED <<server, muxRegistered>>

\* select { ... case <-ctx.Done(): srv.Stop() }: Stop closes the listener
\* and every connection.
GRPCSelectTimeout(p) ==
  /\ pc[p] = "grpcSelect"
  /\ dl[p] = "elapsed"
  /\ LET s == loc[p].srv IN
       /\ inShutdown' = [inShutdown EXCEPT ![s] = TRUE]
       /\ lnOwner' = IF serving[s] THEN ListenerClosed(s) ELSE lnOwner
       /\ serving' = [serving EXCEPT ![s] = FALSE]
       /\ active' = [active EXCEPT ![s] = 0]
  /\ loc' = [loc EXCEPT ![p].sel = "ctx.Done"]
  /\ Goto(p, "return")
  /\ UnchangedFlags /\ UnchangedCfg /\ UnchangedHealth /\ UnchangedDrain
  /\ UNCHANGED <<server, muxRegistered>>

\* a Start / StartContext that reports a drain cut off by its deadline
ReturnReportsTimeout(p) ==
  /\ pc[p] = "return"
  /\ loc' = [loc EXCEPT ![p].ret =
                IF loc[p].sel = "ctx.Done" THEN "context deadline exceeded"
                ELSE IF loc[p].kind = "Start" THEN "nil"
                ELSE IF loc[p].kind = "StartContext" THEN "ctx.Err()"
                ELSE "void"]
  /\ dl' = [dl EXCEPT ![p] = "released"]
  /\ Goto(p, "returned")
  /\ UnchangedFlags /\ UnchangedCfg /\ UnchangedHealth /\ UnchangedNet
  /\ UNCHANGED <<server, muxRegistered, gs>>

\* probe.Shutdown and with it shutdown() return (defer cancel() releases the
\* drain context); Start returns nil, StartContext returns ctx.Err().  A
\* Shutdown called on the responder itself returns nothing.
Return(p) ==
  /\ pc[p] = "return"
  /\ loc' = [loc EXCEPT ![p].ret =
                CASE loc[p].kind = "Start" -> "nil"
                  [] loc[p].kind = "StartContext" -> "ctx.Err()"
                  [] OTHER -> "void"]
  /\ dl' = [dl EXCEPT ![p] = "released"]
  /\ Goto(p, "returned")
  /\ UnchangedFlags /\ UnchangedCfg /\ UnchangedHealth /\ UnchangedNet
  /\ UNCHANGED <<server, muxRegistered, gs>>

\* ------------------------------------------------- the serving loops
\* the Start call that made server s has run go srv.Serve(ln)
ServeStarted(s) ==
  \/ pc[s] \in {"waitTrigger", "shutdownStore", "shutdownLoad", "setState",
                "withTimeout", "probeShutdown", "httpPoll", "grpcSelect",
                "return"}
  \/ pc[s] = "applyState" /\ loc[s].k = "withTimeout"
  \/ pc[s] = "returned" /\ loc[s].ret \in {"nil", "ctx.Err()"}

\* the configurations of WithErrorHandler: with and without a callback
ServeConfigs ==
  [ CheckMechanism     : {"CheckHTTP", "CheckGRPC"},
    HTTPPort           : {DefaultHTTPPort},
    GRPCPort           : {DefaultGRPCPort},
    ExistingGRPCServer : BOOLEAN,
    ExistingHTTPMux    : BOOLEAN,
    ErrorHandler       : BOOLEAN,
    Checkers           : {<<>>} ]

InitServe == \E c \in ServeConfigs : NewPodManager(c)

\* Serve returns because the server was shut down: http.ErrServerClosed from
\* net/http, which the goroutine filters out; nil from grpc, discarded.
ServeClosed(s) ==
  /\ Standalone /\ ServeStarted(s)
  /\ serveLoop.ret[s] = "none"
  /\ inShutdown[s] /\ ~serving[s]
  /\ serveLoop' = [serveLoop EXCEPT
                     !.ret[s] = IF binding = "http" THEN "ErrServerClosed"
                                ELSE "nil"]
  /\ UnchangedFlags /\ UnchangedHealth /\ UnchangedNet /\ UnchangedDrain
  /\ UNCHANGED <<binding, checkers, req, construction, rpc, pc, loc, server,
                 muxRegistered>>

\* Serve returns an unexpected error (Accept failed for good) and closes its
\* listener.  httpProbe: if h.errHandler != nil { h.errHandler(err) };
\* grpcProbe: _ = g.server.Serve(ln).
ServeFails(s) ==
  /\ Standalone /\ ServeStarted(s)
  /\ serveLoop.ret[s] = "none"
  /\ serving[s] /\ ~inShutdown[s]
  /\ serving' = [serving EXCEPT ![s] = FALSE]
  /\ lnOwner' = ListenerClosed(s)
  /\ serveLoop' = [serveLoop EXCEPT
                     !.ret[s] = "accept error",
                     !.delivered[s] = binding = "http" /\ serveLoop.handler]
  /\ UnchangedFlags /\ UnchangedHealth /\ UnchangedDrain
  /\ UNCHANGED <<binding, checkers, req, construction, rpc, pc, loc, server,
                 muxRegistered, inShutdown, active>>

\* ------------------------------------------------------------- clients
\* a client opens a connection to the server that is accepting
ConnOpen(s) ==
  /\ serving[s] /\ ~inShutdown[s]
  /\ active[s] < MaxConns
  /\ active' = [active EXCEPT ![s] = @ + 1]
  /\ UnchangedFlags /\ UnchangedCfg /\ UnchangedHealth /\ UnchangedDrain
  /\ UNCHANGED <<pc, loc, server, muxRegistered, lnOwner, serving, inShutdown>>

\* a connection's work finishes and it closes
ConnClose(s) ==
  /\ active[s] > 0
  /\ active' = [active EXCEPT ![s] = @ - 1]
  /\ UnchangedFlags /\ UnchangedCfg /\ UnchangedHealth /\ UnchangedDrain
  /\ UNCHANGED <<pc, loc, server, muxRegistered, lnOwner, serving, inShutdown>>

\* ------------------------------------------------- HTTP probe requests
\* len(h.checkers)
NumCheckers == Cardinality(DOMAIN checkers)

\* a map that keeps only the last entry written
MapPutLast(m, k, v) == [x \in {k} |-> v]

\* m[k] = v on a Go map
MapPut(m, k, v) ==
  [x \in DOMAIN m \cup {k} |-> IF x = k THEN v ELSE m[x]]

\* the handlers are reachable: the standalone server accepts, or the
\* caller's mux carries the patterns
Reachable ==
  CASE binding = "http"         -> \E s \in Servers : serving[s]
    [] binding = "existingHTTP" -> muxRegistered
    [] OTHER                    -> FALSE

SetReq(r, f) == req' = [req EXCEPT ![r] = f]

UnchangedLife ==
  UNCHANGED <<binding, checkers, ready, shuttingDown, started, pc, loc,
              server, health, hstat, hshut, muxRegistered, lnOwner, serving,
              inShutdown, active, dl, gs, startedCalls, construction, rpc,
              serveLoop>>

\* a mux without onlyGET: every method reaches the handler of its path
RequestAnyMethod(r) ==
  /\ req[r].st = "idle"
  /\ Reachable
  /\ \E path \in {"/ready", "/live", "/startup"}, method \in {"GET", "POST"} :
       SetReq(r, [NoReq EXCEPT
         !.path = path, !.method = method,
         !.sdAtArrival = shuttingDown, !.startedAtArrival = started,
         !.readyAtArrival = ready,
         !.st = path])
  /\ UnchangedLife

\* A request reaches the mux; onlyGET answers 405 to every other method and
\* passes a GET on to the handler of its path.
Request(r) ==
  /\ req[r].st = "idle"
  /\ Reachable
  /\ \E path \in {"/ready", "/live", "/startup"}, method \in {"GET", "POST"} :
       SetReq(r, [NoReq EXCEPT
         !.path = path, !.method = method,
         !.sdAtArrival = shuttingDown, !.startedAtArrival = started,
         !.readyAtArrival = ready,
         !.code = IF method = "GET" THEN 0 ELSE 405,
         !.st = IF method = "GET" THEN path ELSE "done"])
  /\ UnchangedLife

\* a /live handler that follows the readiness flag as well
LiveHandlerReady(r) ==
  /\ req[r].st = "/live"
  /\ SetReq(r, [req[r] EXCEPT
       !.obsSd = shuttingDown,
       !.code = IF shuttingDown \/ ~ready THEN 503 ELSE 200,
       !.st = "done"])
  /\ UnchangedLife

\* a /live handler that consults the checkers as /ready does
LiveHandlerFanOut(r) ==
  /\ req[r].st = "/live"
  /\ SetReq(r, [req[r] EXCEPT
       !.obsSd = shuttingDown,
       !.code = IF shuttingDown THEN 503
                ELSE IF NumCheckers = 0 THEN 200 ELSE 0,
       !.st = IF shuttingDown \/ NumCheckers = 0 THEN "done" ELSE "collect",
       !.ev = IF shuttingDown \/ NumCheckers = 0 THEN <<>>
              ELSE [n \in DOMAIN checkers |->
                      [st |-> "running", err |-> "", ctx |-> "live"]]])
  /\ UnchangedLife

\* /live: 503 while state.ShuttingDown(), else 200
LiveHandler(r) ==
  /\ req[r].st = "/live"
  /\ SetReq(r, [req[r] EXCEPT !.obsSd = shuttingDown,
                              !.code = IF shuttingDown THEN 503 ELSE 200,
                              !.st = "done"])
  /\ UnchangedLife

\* a /startup handler that fails during shutdown, as the gRPC service does
StartupHandlerDraining(r) ==
  /\ req[r].st = "/startup"
  /\ SetReq(r, [req[r] EXCEPT
       !.code = IF started /\ ~shuttingDown THEN 200 ELSE 503,
       !.st = "done"])
  /\ UnchangedLife

\* /startup: 200 once state.Started(), else 503
StartupHandler(r) ==
  /\ req[r].st = "/startup"
  /\ SetReq(r, [req[r] EXCEPT !.code = IF started THEN 200 ELSE 503,
                              !.st = "done"])
  /\ UnchangedLife

\* readyHandler: !state.Ready() || ... : the first load
ReadyLoadReady(r) ==
  /\ req[r].st = "/ready"
  /\ SetReq(r, [req[r] EXCEPT !.obsReady = ready,
                              !.code = IF ready THEN 0 ELSE 503,
                              !.st = IF ready THEN "loadShuttingDown"
                                     ELSE "done"])
  /\ UnchangedLife

\* a readyHandler that takes an empty registry for a failed fan-out
ReadyLoadShuttingDownEmptyFails(r) ==
  /\ req[r].st = "loadShuttingDown"
  /\ SetReq(r, [req[r] EXCEPT
       !.obsSd = shuttingDown,
       !.code = IF shuttingDown \/ NumCheckers = 0 THEN 503 ELSE 0,
       !.st = IF shuttingDown \/ NumCheckers = 0 THEN "done" ELSE "collect",
       !.ev = IF shuttingDown \/ NumCheckers = 0 THEN <<>>
              ELSE [n \in DOMAIN checkers |->
                      [st |-> "running", err |-> "", ctx |-> "live"]]])
  /\ UnchangedLife

\* readyHandler: ... || state.ShuttingDown(): the second load; then 200 at
\* once without checkers, else runCheckers starts one goroutine per checker.
ReadyLoadShuttingDown(r) ==
  /\ req[r].st = "loadShuttingDown"
  /\ SetReq(r, [req[r] EXCEPT
       !.obsSd = shuttingDown,
       !.code = IF shuttingDown THEN 503
                ELSE IF NumCheckers = 0 THEN 200 ELSE 0,
       !.st = IF shuttingDown \/ NumCheckers = 0 THEN "done" ELSE "collect",
       !.ev = IF shuttingDown \/ NumCheckers = 0 THEN <<>>
              ELSE [n \in DOMAIN checkers |->
                      [st |-> "running", err |-> "", ctx |-> "live"]]])
  /\ UnchangedLife

\* context.WithTimeout(reqCtx, h.checkerTimeout): the deadline of one
\* checker's context passes
CheckerDeadline(r, n) ==
  /\ n \in DOMAIN req[r].ev
  /\ req[r].ev[n].st = "running"
  /\ SetReq(r, [req[r] EXCEPT !.ev[n].st = "ctxDone",
                             !.ev[n].ctx = "DeadlineExceeded"])
  /\ UnchangedLife

\* the request's context is done while its fan-out runs (the client went
\* away, or a deadline set on the request passed): the contexts derived
\* from it are cancelled with it, with the same error
RequestCancelled(r) ==
  /\ req[r].st = "collect"
  /\ req[r].cancelled = ""
  /\ \E cause \in {"Canceled", "DeadlineExceeded"} :
       SetReq(r, [req[r] EXCEPT
         !.cancelled = cause,
         !.ev = [n \in DOMAIN @ |->
                   IF @[n].ctx = "live"
                   THEN [@[n] EXCEPT !.st = "ctxDone", !.ctx = cause]
                   ELSE @[n]]])
  /\ UnchangedLife

\* ctx.Err().Error()
CtxErr(ctx) ==
  IF ctx = "Canceled" THEN "context canceled"
  ELSE "context deadline exceeded"

\* what c.Check(ctx) returns, if it returns: "" stands for a nil error;
\* ctx is "live" or the error of the done context
CheckReturn(impl, ctx) ==
  CASE impl = "okChecker"   -> {""}
    [] impl = "errChecker"  -> {"boom"}
    [] impl = "slowChecker" -> IF ctx # "live" THEN {CtxErr(ctx)} ELSE {}
    [] OTHER                -> {}

\* a result string that reports every outcome as the bare message
ResultValBare(err) == IF err = "" THEN "ok" ELSE err

\* the result string of a checker: "ok" or "error: " + err.Error()
ResultVal(err) == IF err = "" THEN "ok" ELSE "error: " \o err

\* a checker goroutine that returns without cancelling its context
CheckerSendNoCancel(r, n) ==
  /\ n \in DOMAIN req[r].ev
  /\ req[r].ev[n].st \in {"running", "ctxDone"}
  /\ \E err \in CheckReturn(checkers[n], req[r].ev[n].ctx) :
       SetReq(r, [req[r] EXCEPT
         !.ev[n] = [st |-> "returned", err |-> err, ctx |-> @.ctx],
         !.ch = Append(@, <<n, ResultVal(err)>>)])
  /\ UnchangedLife

\* a checker goroutine: c.Check(ctx) returns, the result is sent on ch (the
\* buffer has room for every result) and the deferred cancel() runs as the
\* goroutine returns; nothing reads the context between the two.
CheckerSend(r, n) ==
  /\ n \in DOMAIN req[r].ev
  /\ req[r].ev[n].st \in {"running", "ctxDone"}
  /\ \E err \in CheckReturn(checkers[n], req[r].ev[n].ctx) :
       SetReq(r, [req[r] EXCEPT
         !.ev[n] = [st |-> "returned", err |-> err,
                    ctx |-> IF @.ctx = "live" THEN "Canceled" ELSE @.ctx],
         !.ch = Append(@, <<n, ResultVal(err)>>)])
  /\ UnchangedLife

\* for _, v := range results { if v != "ok" { allOK = false; break } }
AllOK(results) == \A n \in DOMAIN results : results[n] = "ok"

\* a status that passes as soon as one checker passes
ReadyCodeAny(results) ==
  IF \E n \in DOMAIN results : results[n] = "ok" THEN 200 ELSE 503

\* the status readyHandler writes for the results of runCheckers
ReadyCode(results) == IF AllOK(results) THEN 200 ELSE 503

\* a receive loop that returns at the first result that is not "ok"
CollectFirstFailure(r) ==
  /\ req[r].st = "collect"
  /\ req[r].ch # <<>>
  /\ LET m   == Head(req[r].ch)
         out == MapPut(req[r].out, m[1], m[2])
         n   == req[r].n + 1
         end == n = NumCheckers \/ m[2] # "ok"
     IN  SetReq(r, [req[r] EXCEPT
           !.ch = Tail(@), !.out = out, !.n = n,
           !.code = IF end THEN ReadyCode(out) ELSE 0,
           !.body = IF end THEN out ELSE <<>>,
           !.st = IF end THEN "done" ELSE "collect"])
  /\ UnchangedLife

\* runCheckers' receive loop: for range h.checkers { r := <-ch; out[r.name]
\* = r.val }.  After the last receive runCheckers returns and readyHandler
\* writes the status and encodes the results as the body.
Collect(r) ==
  /\ req[r].st = "collect"
  /\ req[r].ch # <<>>
  /\ LET m   == Head(req[r].ch)
         out == MapPut(req[r].out, m[1], m[2])
         n   == req[r].n + 1
     IN  SetReq(r, [req[r] EXCEPT
           !.ch = Tail(@), !.out = out, !.n = n,
           !.code = IF n = NumCheckers THEN ReadyCode(out) ELSE 0,
           !.body = IF n = NumCheckers THEN out ELSE <<>>,
           !.st = IF n = NumCheckers THEN "done" ELSE "collect"])
  /\ UnchangedLife

\* the client has its response; the slot serves the next request
Recycle(r) ==
  /\ req[r].st = "done"
  /\ SetReq(r, NoReq)
  /\ UnchangedLife

\* ---------------------------------------------------------------- system
\* Start / StartContext and the shutdown sequence, for the callers in ps
StartSteps(ps) ==
  \E p \in ps :
     \/ HTTPStartSetServer(p) \/ GRPCStartSetServer(p)
     \/ Listen(p) \/ ExistingHTTPRegister(p) \/ ExistingGRPCStart(p)
     \/ OnStarted(p) \/ StartupServing(p) \/ StartLoadReady(p)
     \/ StartLoadShuttingDown(p) \/ Serve(p)
     \/ Trigger(p) \/ ShutdownStore(p) \/ ShutdownLoad(p) \/ WithTimeout(p)
     \/ DeadlineElapses(p) \/ ProbeShutdown(p) \/ HTTPPoll(p)
     \/ GracefulStopBegin(p) \/ GracefulStopDone(p)
     \/ GRPCSelectDone(p) \/ GRPCSelectTimeout(p) \/ Return(p)

\* SetReady, for the callers in qs
ReadySteps(qs) == \E q \in qs : SetReadyStore(q) \/ SetReadyLoad(q)

\* the state pushes of the threads in ts
PushSteps(ts) == \E t \in ts : SetState(t) \/ ApplyState(t)

Clients == \E s \in Servers : ConnOpen(s) \/ ConnClose(s)

Probes ==
  \/ \E r \in Slots :
       \/ Request(r) \/ LiveHandler(r) \/ StartupHandler(r)
       \/ ReadyLoadReady(r) \/ ReadyLoadShuttingDown(r)
       \/ Collect(r) \/ Recycle(r)
  \/ \E r \in Slots, n \in CheckerNames :
       CheckerDeadline(r, n) \/ CheckerSend(r, n)

\* concurrent Start calls, SetReady calls and client connections
Next ==
  \/ StartSteps(Starters) \/ ReadySteps(ReadyCallers) \/ PushSteps(Threads)
  \/ Clients

Spec == Init /\ [][Next]_vars

\* one Start call, SetReady calls and HTTP probe traffic
NextProbe ==
  \/ StartSteps({1}) \/ ReadySteps(ReadyCallers)
  \/ PushSteps({1} \cup ReadyCallers) \/ Probes

ProbeSpec == InitProbe /\ [][NextProbe]_vars

\* a caller that marks the pod ready first and starts it afterwards
\* (pm.SetReady() has returned, or is never called, when pm.Start() begins)
NextEarlyReady ==
  \/ /\ pc[1] = "idle"
     /\ ReadySteps(ReadyCallers) \/ PushSteps(ReadyCallers)
  \/ /\ \A q \in ReadyCallers : pc[q] \in {"idle", "returned"}
     /\ StartSteps({1}) \/ PushSteps({1})
  \/ Probes

EarlyReadySpec == InitProbe /\ [][NextEarlyReady]_vars

\* probe traffic whose requests can be cancelled while their fan-out runs
NextCancel == NextProbe \/ \E r \in Slots : RequestCancelled(r)

CancelSpec == InitProbe /\ [][NextCancel]_vars

\* Start calls, client connections and serving loops that return
NextServe ==
  \/ StartSteps(Starters) \/ PushSteps(Starters) \/ Clients
  \/ \E s \in Servers : ServeClosed(s) \/ ServeFails(s)

ServeSpec == InitServe /\ [][NextServe]_vars

\* Scheduling: a goroutine that can take its next step takes it, and time
\* passes, so a running deadline elapses.  Nothing makes a client close its
\* connection, a signal arrive or a caller call.
ShutdownStep(p) ==
  \/ ShutdownStore(p) \/ ShutdownLoad(p) \/ SetState(p) \/ ApplyState(p)
  \/ WithTimeout(p) \/ ProbeShutdown(p) \/ HTTPPoll(p)
  \/ GRPCSelectDone(p) \/ GRPCSelectTimeout(p) \/ Return(p)

GracefulStopStep(p) == GracefulStopBegin(p) \/ GracefulStopDone(p)

\* concurrent Start calls and client connections: the drain
NextDrain == StartSteps(Starters) \/ PushSteps(Starters) \/ Clients

DrainSpec == Init /\ [][NextDrain]_vars

\* construction from any options, then one Start call
NextConstruct == NewPodManagerCall \/ StartSteps({1}) \/ PushSteps({1})

ConstructSpec == Unconstructed /\ [][NextConstruct]_vars

\* ------------------------------------------------- options, one by one
\* durations in seconds
Durations == {0, DefaultShutdownTimeout, 30}

\* defaultConfig()
defaultConfig ==
  [CheckMechanism |-> "CheckHTTP", HTTPPort |-> DefaultHTTPPort,
   GRPCPort |-> DefaultGRPCPort, ShutdownTimeout |-> DefaultShutdownTimeout,
   CheckerTimeout |-> DefaultCheckerTimeout, Checkers |-> <<>>,
   ErrorHandler |-> FALSE, ExistingGRPCServer |-> FALSE,
   ExistingHTTPMux |-> FALSE]

\* Config{}
EmptyConfig ==
  [CheckMechanism |-> "CheckHTTP", HTTPPort |-> 0, GRPCPort |-> 0,
   ShutdownTimeout |-> 0, CheckerTimeout |-> 0, Checkers |-> <<>>,
   ErrorHandler |-> FALSE, ExistingGRPCServer |-> FALSE,
   ExistingHTTPMux |-> FALSE]

WithCheckMechanism(c, m) == [c EXCEPT !.CheckMechanism = m]

WithHTTPPort(c, port) == [c EXCEPT !.HTTPPort = port]

\* a WithGRPCPort that sets both ports
WithGRPCPortBoth(c, port) == [c EXCEPT !.GRPCPort = port, !.HTTPPort = port]

WithGRPCPort(c, port) == [c EXCEPT !.GRPCPort = port]

WithShutdownTimeout(c, d) == [c EXCEPT !.ShutdownTimeout = d]

WithCheckerTimeout(c, d) == [c EXCEPT !.CheckerTimeout = d]

\* a WithChecker that keeps the checker already registered under the name
WithCheckerKeepFirst(c, name, ch) ==
  IF name \in DOMAIN c.Checkers THEN c
  ELSE [c EXCEPT !.Checkers = MapPut(c.Checkers, name, ch)]

\* WithChecker: c.Checkers[name] = ch (the map of defaultConfig is not nil)
WithChecker(c, name, ch) ==
  [c EXCEPT !.Checkers = MapPut(c.Checkers, name, ch)]

WithErrorHandler(c, h) == [c EXCEPT !.ErrorHandler = h]

WithExistingGRPCServer(c, s) == [c EXCEPT !.ExistingGRPCServer = s]

WithExistingHTTPMux(c, m) == [c EXCEPT !.ExistingHTTPMux = m]

\* the option values a caller can pass
OptionValues ==
  {[kind |-> "WithCheckMechanism", v |-> <<m>>] :
      m \in {"CheckHTTP", "CheckGRPC"}}
  \cup {[kind |-> "WithHTTPPort", v |-> <<p>>] : p \in Ports}
  \cup {[kind |-> "WithGRPCPort", v |-> <<p>>] : p \in Ports}
  \cup {[kind |-> "WithShutdownTimeout", v |-> <<d>>] : d \in Durations}
  \cup {[kind |-> "WithCheckerTimeout", v |-> <<d>>] : d \in Durations}
  \cup {[kind |-> "WithChecker", v |-> <<n, ch>>] :
          n \in CheckerNames, ch \in Impls}
  \cup {[kind |-> "WithErrorHandler", v |-> <<TRUE>>]}
  \cup {[kind |-> "WithExistingGRPCServer", v |-> <<TRUE>>]}
  \cup {[kind |-> "WithExistingHTTPMux", v |-> <<TRUE>>]}

\* o(&cfg)
ApplyOption(c, o) ==
  CASE o.kind = "WithCheckMechanism" -> WithCheckMechanism(c, o.v[1])
    [] o.kind = "WithHTTPPort" -> WithHTTPPort(c, o.v[1])
    [] o.kind = "WithGRPCPort" -> WithGRPCPort(c, o.v[1])
    [] o.kind = "WithShutdownTimeout" -> WithShutdownTimeout(c, o.v[1])
    [] o.kind = "WithCheckerTimeout" -> WithCheckerTimeout(c, o.v[1])
    [] o.kind = "WithChecker" -> WithChecker(c, o.v[1], o.v[2])
    [] o.kind = "WithErrorHandler" -> WithErrorHandler(c, o.v[1])
    [] o.kind = "WithExistingGRPCServer" -> WithExistingGRPCServer(c, o.v[1])
    [] o.kind = "WithExistingHTTPMux" -> WithExistingHTTPMux(c, o.v[1])

\* ApplyOptions enters: cfg := defaultConfig(), no option applied yet
ApplyOptionsBegin ==
  /\ NoManager
  /\ construction = [st |-> "options", err |-> "", applied |-> <<>>,
                     cfg |-> defaultConfig]

\* one iteration of the loop over opts
OptionCall ==
  /\ construction.st = "options"
  /\ Len(construction.applied) < MaxOptions
  /\ \E o \in OptionValues :
       construction' =
         [construction EXCEPT !.applied = Append(@, o),
                              !.cfg = ApplyOption(@, o)]
  /\ UNCHANGED <<binding, checkers, ready, shuttingDown, started, pc, loc,
                 server, health, hstat, hshut, muxRegistered, lnOwner,
                 serving, inShutdown, active, dl, gs, startedCalls, req,
                 rpc, serveLoop>>

\* the end of opts: the two range checks and the return
ApplyOptionsReturn ==
  /\ construction.st = "options"
  /\ LET cfg == construction.cfg
     IN  construction' =
           IF cfg.HTTPPort < MinPort \/ cfg.HTTPPort > MaxPort
           THEN [construction EXCEPT !.st = "returned",
                                     !.err = "invalid HTTPPort",
                                     !.cfg = EmptyConfig]
           ELSE IF cfg.GRPCPort < MinPort \/ cfg.GRPCPort > MaxPort
           THEN [construction EXCEPT !.st = "returned",
                                     !.err = "invalid GRPCPort",
                                     !.cfg = EmptyConfig]
           ELSE [construction EXCEPT !.st = "returned"]
  /\ UNCHANGED <<binding, checkers, ready, shuttingDown, started, pc, loc,
                 server, health, hstat, hshut, muxRegistered, lnOwner,
                 serving, inShutdown, active, dl, gs, startedCalls, req,
                 rpc, serveLoop>>

NextOption == OptionCall \/ ApplyOptionsReturn

OptionSpec == ApplyOptionsBegin /\ [][NextOption]_vars

FairDrainSpec ==
  /\ DrainSpec
  /\ \A p \in Starters :
       /\ WF_vars(ShutdownStep(p))
       /\ WF_vars(GracefulStopStep(p))
       /\ WF_vars(DeadlineElapses(p))

\* ------------------------------------------- LoggingUnaryInterceptor
\* A method name is the sequence of its pieces: "/pkg.Service/Method" is
\* <<"/", "pkg.Service", "/", "Method">>.
healthServicePrefix == <<"/", "grpc.health.v1.Health", "/">>

\* info.FullMethod of the requests
Methods ==
  { <<"/", "grpc.health.v1.Health", "/", "Check">>,
    <<"/", "grpc.health.v1.Health", "/", "Watch">>,
    <<"/", "grpc.health.v1.Health", "/">>,
    <<"/", "grpc.health.v1.Health">>,
    <<"/", "grpc.health.v1.Health", "2", "/", "Check">>,
    <<"/", "app.Service", "/", "Do">>,
    <<>> }

\* what the wrapped handler returns: a response and an error (nil, a status
\* error with its code, or an error that carries no status)
Responses == {"nil", "reply"}
HandlerErrors == {"nil", "status:NotFound", "status:Internal", "errors.New"}

\* a prefix test that stops before the prefix's last piece
HasPrefixShort(s, prefix) ==
  /\ Len(s) >= Len(prefix) - 1
  /\ SubSeq(s, 1, Len(prefix) - 1) = SubSeq(prefix, 1, Len(prefix) - 1)

\* strings.HasPrefix
HasPrefix(s, prefix) ==
  /\ Len(s) >= Len(prefix)
  /\ SubSeq(s, 1, Len(prefix)) = prefix

\* status.Code(err)
Code(err) ==
  CASE err = "nil" -> "OK"
    [] err = "status:NotFound" -> "NotFound"
    [] err = "status:Internal" -> "Internal"
    [] OTHER -> "Unknown"

UnchangedManager ==
  UNCHANGED <<binding, checkers, ready, shuttingDown, started, pc, loc,
              server, health, hstat, hshut, muxRegistered, lnOwner, serving,
              inShutdown, active, dl, gs, startedCalls, req, construction,
              serveLoop>>

\* no manager is needed to use the interceptor
InitInterceptor == Unconstructed

\* gRPC calls the interceptor with a request for info.FullMethod
InterceptorCall ==
  /\ rpc.st = "idle"
  /\ \E m \in Methods : rpc' = [rpc EXCEPT !.st = "prefix", !.method = m]
  /\ UnchangedManager

\* a health method: return handler(ctx, req)
HealthSkip ==
  /\ rpc.st = "prefix"
  /\ HasPrefix(rpc.method, healthServicePrefix)
  /\ \E resp \in Responses, err \in HandlerErrors :
       rpc' = [rpc EXCEPT !.st = "returned", !.calls = @ + 1,
                          !.hresp = resp, !.herr = err,
                          !.resp = resp, !.err = err]
  /\ UnchangedManager

\* any other method: start := time.Now(); resp, err := handler(ctx, req);
\* duration := time.Since(start)
HandlerCall ==
  /\ rpc.st = "prefix"
  /\ ~HasPrefix(rpc.method, healthServicePrefix)
  /\ \E resp \in Responses, err \in HandlerErrors, d \in Durations :
       rpc' = [rpc EXCEPT !.st = "info", !.calls = @ + 1,
                          !.hresp = resp, !.herr = err, !.duration = d]
  /\ UnchangedManager

\* log.Info("grpc request", method, code, duration); logs holds the records
\* handed to the logger
LogInfo ==
  /\ rpc.st = "info"
  /\ rpc' = [rpc EXCEPT
               !.logs = Append(@, [level |-> "INFO", msg |-> "grpc request",
                                   method |-> rpc.method,
                                   code |-> Code(rpc.herr),
                                   duration |-> rpc.duration]),
               !.st = IF rpc.herr # "nil" THEN "warn" ELSE "return"]
  /\ UnchangedManager

\* if err != nil: log.Warn("grpc request error", method, code, err)
LogWarn ==
  /\ rpc.st = "warn"
  /\ rpc' = [rpc EXCEPT
               !.logs = Append(@, [level |-> "WARN",
                                   msg |-> "grpc request error",
                                   method |-> rpc.method,
                                   code |-> Code(rpc.herr),
                                   err |-> rpc.herr]),
               !.st = "return"]
  /\ UnchangedManager

\* return resp, err
InterceptorReturn ==
  /\ rpc.st = "return"
  /\ rpc' = [rpc EXCEPT !.st = "returned", !.resp = rpc.hresp,
                        !.err = rpc.herr]
  /\ UnchangedManager

NextInterceptor ==
  \/ InterceptorCall \/ HealthSkip \/ HandlerCall \/ LogInfo \/ LogWarn
  \/ InterceptorReturn

InterceptorSpec == InitInterceptor /\ [][NextInterceptor]_vars

\* Start calls and Shutdown calls on the responder itself, in any order
NextResponder ==
  \/ StartSteps(Starters) \/ PushSteps(Starters) \/ Clients
  \/ \E p \in Starters : ShutdownCall(p)

ResponderSpec == Init /\ [][NextResponder]_vars

FairResponderSpec ==
  /\ ResponderSpec
  /\ \A p \in Starters :
       /\ WF_vars(ShutdownStep(p))
       /\ WF_vars(GracefulStopStep(p))
       /\ WF_vars(DeadlineElapses(p))

\* the handler of a request and the goroutines of its fan-out
HandlerStep(r) ==
  \/ LiveHandler(r) \/ StartupHandler(r) \/ ReadyLoadReady(r)
  \/ ReadyLoadShuttingDown(r) \/ Collect(r)

FairProbeSpec ==
  /\ ProbeSpec
  /\ \A r \in Slots :
       /\ WF_vars(HandlerStep(r))
       /\ \A n \in CheckerNames :
            /\ WF_vars(CheckerDeadline(r, n))
            /\ WF_vars(CheckerSend(r, n))

\* ================================================================ claims
\* the answered GET requests of one path
Answered(path) ==
  {r \in Slots : req[r].st = "done" /\ req[r].method = "GET"
                 /\ req[r].path = path}

\* every checker of the fan-out of request r returned a nil error
AllReturnedNil(r) ==
  \A n \in DOMAIN checkers :
     /\ n \in DOMAIN req[r].ev
     /\ req[r].ev[n].st = "returned"
     /\ req[r].ev[n].err = ""

\* C1: HTTP bindings: a GET /ready is answered 200 iff the handler loaded
\* ready = true and shuttingDown = false and every registered checker
\* returned no error (none registered: vacuous); otherwise it is answered
\* 503.  A 200 is given only while the ready flag is set and to a request
\* that arrived before shuttingDown was set.
C1_ReadyAnswer ==
  \A r \in Answered("/ready") :
     /\ req[r].code \in {200, 503}
     /\ req[r].code = 200 <=>
          (req[r].obsReady /\ ~req[r].obsSd /\ AllReturnedNil(r))
     /\ req[r].code = 200 => (ready /\ ~req[r].sdAtArrival)

C1_Witness ==
  \E r \in Answered("/ready") :
     /\ req[r].code = 200
     /\ NumCheckers = 2
     /\ binding = "http"

\* C2: a GET /live is answered 503 iff shuttingDown was true when the
\* handler loaded it, whatever ready, started and the checkers are; a 503 is
\* given only once shuttingDown is set, a 200 only to a request that arrived
\* before it was set.
C2_LiveAnswer ==
  \A r \in Answered("/live") :
     /\ req[r].code \in {200, 503}
     /\ req[r].code = 503 <=> req[r].obsSd
     /\ req[r].code = 503 => shuttingDown
     /\ req[r].code = 200 => ~req[r].sdAtArrival

C2_Witness ==
  /\ \E r \in Answered("/live") : req[r].code = 200 /\ ~ready
  /\ \E n \in DOMAIN checkers : checkers[n] = "errChecker"

\* C6: the fan-out is total over the registry: the result map of a finished
\* fan-out has exactly one entry per registered name, and the answer is 503
\* iff at least one entry is not "ok".
C6_FanOutTotal ==
  \A r \in Answered("/ready") :
     req[r].ev # <<>> =>
       /\ DOMAIN req[r].body = DOMAIN checkers
       /\ Cardinality(DOMAIN req[r].body) = NumCheckers
       /\ req[r].code = 503 <=>
            (\E n \in DOMAIN req[r].body : req[r].body[n] # "ok")

C6_Witness ==
  \E r \in Answered("/ready") :
     /\ Cardinality(DOMAIN req[r].body) = 2
     /\ \E n, m \in DOMAIN req[r].body :
          req[r].body[n] = "ok" /\ req[r].body[m] = "error: boom"

\* ---------------------------------------------------------- the answers
\* the threads whose shutdown() has finished pm.probe.SetState(ready, true)
PushDone ==
  {p \in Starters :
     \/ pc[p] \in {"withTimeout", "probeShutdown", "httpPoll", "grpcSelect",
                   "return"}
     \/ pc[p] = "returned" /\ loc[p].ret # "bindError"}

\* the registries a gRPC client can query: the caller's server carries the
\* attached one; a standalone server carries the registry made with it
\* while it accepts or still has connections
Exposed ==
  IF binding = "existingGRPC" THEN {ExistingHealth}
  ELSE {s \in Servers : serving[s] \/ active[s] > 0}

\* the Check of a gRPC service answers SERVING
GRPCServing(service) == \E h \in Exposed : hstat[h][service] = "SERVING"

\* what a GET handled in this state is answered, as the handlers compute it
HTTPReady == ready /\ ~shuttingDown
             /\ \A n \in DOMAIN checkers : checkers[n] = "okChecker"
HTTPLive  == ~shuttingDown

ReadyPositive == IF IsGRPC THEN GRPCServing("ready") ELSE HTTPReady
LivePositive  == IF IsGRPC THEN GRPCServing("live") ELSE HTTPLive
\* the startup probe is answered negatively
StartupNegative ==
  IF IsGRPC THEN \E h \in Exposed : hstat[h]["startup"] = "NOT_SERVING"
  ELSE ~started

\* C3: once shuttingDown is set and shutdown's state push has completed,
\* readiness is never 'ready'/SERVING and liveness never 'alive'/SERVING
\* again, in every binding, also when a SetReady that began before the
\* shutdown completes after it.
C3_NoPositiveAfterPush ==
  PushDone # {} => (~ReadyPositive /\ ~LivePositive)

\* C4: gRPC bindings with checkers registered: 'ready' is SERVING only if
\* ready is true, shuttingDown is false and every registered checker passes.
C4_GRPCReadyFollowsCheckers ==
  (IsGRPC /\ NumCheckers > 0 /\ GRPCServing("ready")) =>
     /\ ready /\ ~shuttingDown
     /\ \A n \in DOMAIN checkers : checkers[n] = "okChecker"

\* C5: started and shuttingDown are monotonic: no step of Start,
\* StartContext, SetReady, the shutdown sequence or a client takes either
\* from true back to false.
C5_FlagsMonotonic ==
  [][(started => started') /\ (shuttingDown => shuttingDown')]_vars

C5_Witness ==
  /\ started /\ shuttingDown
  /\ \E p, o \in Starters :
       /\ pc[p] = "returned" /\ loc[p].ret = "bindError"
       /\ pc[o] = "returned" /\ loc[o].ret = "ctx.Err()"

\* C7: a readiness request whose fan-out has begun completes, also with a
\* checker that never returns: the request is answered.
C7_FanOutCompletes ==
  \A r \in Slots : (req[r].st = "collect") ~> (req[r].st = "done")

\* C8: once the shutdown trigger has fired in a Start / StartContext whose
\* probe.Start succeeded, that call eventually returns, whether the
\* connections finish or not.
C8_StartReturns ==
  \A p \in Starters : (pc[p] = "shutdownStore") ~> (pc[p] = "returned")

C8_Witness ==
  \E p \in Starters :
     /\ pc[p] = "returned"
     /\ loc[p].sel = "ctx.Done"
     /\ binding = "http"
     /\ active[loc[p].srv] > 0

\* C9: standalone bindings: when Shutdown returned because the drain
\* deadline elapsed, no connection of the server it stopped is still open.
C9_HardStop ==
  \A p \in Starters :
     (Standalone /\ pc[p] \in {"return", "returned"}
        /\ loc[p].sel = "ctx.Done")
       => active[loc[p].srv] = 0

\* the Start calls whose trigger has fired and has set shuttingDown
Triggered ==
  {p \in Starters :
     \/ pc[p] \in {"shutdownLoad", "setState", "applyState"}
          /\ loc[p].k = "withTimeout"
     \/ p \in PushDone}

AllCheckersOK == \A n \in DOMAIN checkers : checkers[n] = "okChecker"

\* C10 as stated, for every binding: after a shutdown triggered while ready
\* is true and all checkers pass (and, to grant the push its time, once the
\* state push has completed), readiness answers 'not ready', liveness
\* answers 'not alive' and startup answers what it answered before (a
\* Start that reached its wait has made startup positive, so startup is not
\* answered negatively).
C10_AllBindings ==
  \A p \in PushDone :
     (loc[p].readyAtTrigger /\ AllCheckersOK) =>
        (~ReadyPositive /\ ~LivePositive /\ ~StartupNegative)

\* C10 amended: HTTP bindings (standalone or attached): every GET that
\* arrives after shuttingDown was set is answered 503 on /ready and on
\* /live, and on /startup what it was answered before the trigger (200).
C10_HTTPAfterTrigger ==
  \A r \in Slots :
     (req[r].st = "done" /\ req[r].method = "GET" /\ req[r].sdAtArrival) =>
        /\ req[r].path = "/ready" => req[r].code = 503
        /\ req[r].path = "/live" => req[r].code = 503
        /\ req[r].path = "/startup" =>
             (req[r].startedAtArrival /\ req[r].code = 200)

C10_Witness ==
  /\ \E p \in Triggered : loc[p].readyAtTrigger
  /\ AllCheckersOK /\ NumCheckers > 0
  /\ \E r \in Answered("/startup") : req[r].sdAtArrival /\ req[r].code = 200

\* ------------------------------------------------------------ the pushes
\* what the three services report after a push of (r, s)
PushedAs(st, r, s) ==
  IF s THEN \A svc \in Services : st[svc] = "NOT_SERVING"
  ELSE /\ st["live"] = "SERVING"
       /\ st["ready"] = "SERVING" <=> r

\* C11 as stated, for every push in a gRPC binding: when applyState for
\* (ready, shuttingDown) has made its last call and no other write fell into
\* it, shuttingDown = true leaves 'ready', 'live' and 'startup' NOT_SERVING
\* and shuttingDown = false leaves 'live' SERVING and 'ready' SERVING exactly
\* when ready is true.
C11_EveryPush ==
  [][\A t \in Threads :
       (pc[t] = "applyState" /\ pc'[t] # "applyState" /\ loc[t].alone)
         => PushedAs(hstat'[loc[t].hs], loc[t].r, loc[t].s)]_vars

\* C11 amended: the same for every push to a registry that has not been
\* shut down (the attached responder's Shutdown calls health.Shutdown, after
\* which the registry ignores every SetServingStatus).
C11_PushBeforeHealthShutdown ==
  [][\A t \in Threads :
       (pc[t] = "applyState" /\ pc'[t] # "applyState" /\ loc[t].alone
          /\ ~hshut[loc[t].hs])
         => PushedAs(hstat'[loc[t].hs], loc[t].r, loc[t].s)]_vars

C11_Witness ==
  /\ \E q \in ReadyCallers :
       /\ pc[q] = "returned" /\ loc[q].alone /\ loc[q].hs # Nil
       /\ ~loc[q].s /\ ~hshut[loc[q].hs]
  /\ \E p \in Starters :
       /\ pc[p] = "withTimeout" /\ loc[p].alone /\ loc[p].r
       /\ \A svc \in Services : hstat[loc[p].hs][svc] = "NOT_SERVING"

\* C12: gRPC bindings: once Start has finished starting the responder and a
\* concurrent SetReady has returned, and no shutdown has begun, the 'ready'
\* service reports SERVING.
C12_ReadyAfterStartAndSetReady ==
  (/\ IsGRPC /\ ~shuttingDown
   /\ \E p \in Starters : pc[p] = "waitTrigger"
   /\ \E q \in ReadyCallers : pc[q] = "returned")
    => GRPCServing("ready")

\* ---------------------------------------------------------------- Start
\* C13: over the lifetime of one manager, whatever Start / StartContext
\* calls are made, the started-callback is invoked at most once.
C13_CallbackOnce == startedCalls <= 1

\* the Start calls that have not reached the started-callback
BeforeCallback(p) ==
  \/ pc[p] \in {"idle", "listen", "onStarted", "panicked"}
  \/ pc[p] = "returned" /\ loc[p].ret = "bindError"

\* C14: a Start / StartContext whose bind failed has returned the error
\* without waiting for its trigger and without running the shutdown
\* sequence; it holds no listener, it did not invoke the started-callback,
\* and started and shuttingDown are false unless another call set them.
C14_BindFailure ==
  \A p \in Starters :
     (pc[p] = "returned" /\ loc[p].ret = "bindError") =>
        /\ loc[p].kind = "none" /\ dl[p] = "unset" /\ gs[p] = "none"
        /\ lnOwner # p /\ ~serving[p]
        /\ (\A o \in Starters : BeforeCallback(o)) =>
              (~started /\ ~shuttingDown /\ startedCalls = 0)

C14_Witness ==
  /\ \A p \in Starters : pc[p] = "returned" /\ loc[p].ret = "bindError"
  /\ binding = "grpc" /\ ~started /\ ~shuttingDown

\* ----------------------------------------------------------- construction
\* the port a NewPodManager call configures: the option, else the default
Configured(opt, default) == IF opt = <<>> THEN default ELSE opt[1]

InRange(port) == port >= MinPort /\ port <= MaxPort

\* C15: NewPodManager fails exactly when the configured HTTP port or the
\* configured gRPC port is outside [1, 65535].  When it fails there is no
\* manager and no responder, no server and no listener ever exist, and the
\* invalid port is not replaced by a default; when it succeeds the Config
\* carries the configured ports.
C15_PortValidation ==
  construction.st # "pending" =>
    LET http == Configured(construction.given[1], DefaultHTTPPort)
        grpc == Configured(construction.given[2], DefaultGRPCPort)
    IN  /\ construction.st = "error" <=> ~(InRange(http) /\ InRange(grpc))
        /\ construction.st = "error" =>
              /\ construction.err # ""
              /\ binding = "none" /\ server = Nil /\ health = Nil
              /\ lnOwner = Nil /\ ~muxRegistered /\ ~started
              /\ \A t \in Threads : pc[t] = "idle"
              /\ construction.HTTPPort = 0 /\ construction.GRPCPort = 0
        /\ construction.st = "manager" =>
              /\ binding \in Bindings
              /\ construction.HTTPPort = http
              /\ construction.GRPCPort = grpc

C15_Witness ==
  /\ construction.st = "error"
  /\ construction.given = <<<<>>, <<70000>>>>
  /\ construction.err = "invalid GRPCPort"

\* ------------------------------------------------------ attached bindings
\* C16: attached bindings: once the shutdown sequence has completed,
\* readiness and liveness answer 'not serving' (under gRPC the registry is
\* shut down with both services NOT_SERVING), the library has invoked no
\* stop or close operation (it has no server, started no GracefulStop and
\* shut no server down), and the caller's transport still serves the probes.
C16_AttachedShutdown ==
  \A p \in Starters :
     (~Standalone /\ pc[p] = "returned" /\ loc[p].ret # "bindError") =>
        /\ ~ReadyPositive /\ ~LivePositive
        /\ binding = "existingGRPC" =>
              /\ hshut[ExistingHealth]
              /\ hstat[ExistingHealth]["ready"] = "NOT_SERVING"
              /\ hstat[ExistingHealth]["live"] = "NOT_SERVING"
        /\ server = Nil /\ loc[p].srv = Nil /\ gs[p] = "none"
        /\ \A s \in Servers : ~inShutdown[s] /\ ~serving[s]
        /\ binding = "existingHTTP" => Reachable
        /\ binding = "existingGRPC" => Exposed = {ExistingHealth}

C16_Witness ==
  /\ binding = "existingHTTP"
  /\ \E p \in Starters : pc[p] = "returned" /\ loc[p].ret = "nil"
  /\ \E r \in Answered("/live") : req[r].code = 503

C18_StartContextReturns ==
  /\ \A p \in Starters :
       (pc[p] = "shutdownStore" /\ loc[p].kind = "StartContext")
         ~> (pc[p] = "returned")
  /\ [](\A p \in Starters :
          (pc[p] = "returned" /\ loc[p].ret = "ctx.Err()") => shuttingDown)

C18_Witness ==
  \E p \in Starters :
     /\ pc[p] = "returned" /\ loc[p].ret = "ctx.Err()" /\ shuttingDown
     /\ binding = "grpc" /\ loc[p].sel = "ctx.Done"

\* C19: a request with a method other than GET is answered 405 on every
\* path and in every lifecycle state; it never enters a handler, so no flag
\* is loaded and no checker is run for it.
C19_MethodGate ==
  \A r \in Slots :
     req[r].method = "POST" =>
        /\ req[r].st = "done" /\ req[r].code = 405
        /\ ~req[r].obsReady /\ ~req[r].obsSd
        /\ req[r].ev = <<>> /\ req[r].ch = <<>> /\ req[r].body = <<>>

C19_Witness ==
  /\ ready /\ ~shuttingDown /\ NumCheckers > 0
  /\ \E r \in Slots :
       req[r].method = "POST" /\ req[r].path = "/ready" /\ req[r].code = 405

\* C20: every registered checker is run for every answered GET /ready,
\* whatever the flags are when it is handled.
C20_CheckersAlwaysRun ==
  \A r \in Answered("/ready") :
     NumCheckers > 0 => DOMAIN req[r].ev = DOMAIN checkers

\* C21: a /live or /startup request never starts a checker evaluation,
\* whatever is registered: it has no fan-out, no result and no body, and it
\* is never waiting for a checker.
C21_NoCheckerOnLiveStartup ==
  \A r \in Slots :
     req[r].path \in {"/live", "/startup"} =>
        /\ req[r].ev = <<>> /\ req[r].ch = <<>> /\ req[r].out = <<>>
        /\ req[r].body = <<>>
        /\ req[r].st \in {req[r].path, "done"}

C21_Witness ==
  /\ \E n \in DOMAIN checkers : checkers[n] = "stuckChecker"
  /\ \E n \in DOMAIN checkers : checkers[n] = "errChecker"
  /\ ready /\ ~shuttingDown
  /\ \E r \in Answered("/startup") : req[r].code = 200

\* the entry the body carries for a checker implementation that returned
Entry(impl) ==
  CASE impl = "okChecker"  -> "ok"
    [] impl = "errChecker" -> "error: boom"
    [] OTHER               -> "error: context deadline exceeded"

\* C22: in the body of an answered GET /ready every registered checker has
\* its entry, and the entry is "ok" if that checker returned no error and
\* "error: <message>" with its own message otherwise, whatever the other
\* checkers returned.
C22_EntryPerChecker ==
  \A r \in Answered("/ready") :
     req[r].ev # <<>> =>
       \A n \in DOMAIN checkers :
          /\ n \in DOMAIN req[r].body
          /\ req[r].body[n] = Entry(checkers[n])
          /\ req[r].body[n] = "ok" <=> req[r].ev[n].err = ""

C22_Witness ==
  \E r \in Answered("/ready") :
     /\ req[r].code = 503
     /\ \E n, m \in DOMAIN req[r].body :
          /\ req[r].body[n] = "ok"
          /\ req[r].body[m] = "error: context deadline exceeded"

\* the positions in the applied options that register a checker under n
Registrations(n) ==
  {i \in DOMAIN construction.applied :
     /\ construction.applied[i].kind = "WithChecker"
     /\ construction.applied[i].v[1] = n}

\* the last element of a non-empty set of positions
Last(S) == CHOOSE i \in S : \A j \in S : j <= i

\* C23: after any sequence of WithChecker registrations (duplicates
\* included) no error arises from them and the registry holds exactly one
\* entry per distinct registered name, bound to the checker registered last
\* under that name; so a registration leaves the entries of other names as
\* they were.
C23_LastWriteWins ==
  construction.st = "options" =>
    LET reg == construction.cfg.Checkers
    IN  /\ construction.err = ""
        /\ DOMAIN reg = {n \in CheckerNames : Registrations(n) # {}}
        /\ \A n \in DOMAIN reg :
              reg[n] = construction.applied[Last(Registrations(n))].v[2]

\* the same name registered twice with different checkers, another name
\* registered in between
C23_Witness ==
  /\ construction.st = "options"
  /\ Len(construction.applied) = 3
  /\ \A i \in 1..3 : construction.applied[i].kind = "WithChecker"
  /\ construction.applied[1].v[1] = construction.applied[3].v[1]
  /\ construction.applied[1].v[2] # construction.applied[3].v[2]
  /\ construction.applied[2].v[1] # construction.applied[1].v[1]
  /\ Cardinality(DOMAIN construction.cfg.Checkers) = 2

\* the Config field an option writes
FieldOf(kind) ==
  CASE kind = "WithCheckMechanism" -> "CheckMechanism"
    [] kind = "WithHTTPPort" -> "HTTPPort"
    [] kind = "WithGRPCPort" -> "GRPCPort"
    [] kind = "WithShutdownTimeout" -> "ShutdownTimeout"
    [] kind = "WithCheckerTimeout" -> "CheckerTimeout"
    [] kind = "WithChecker" -> "Checkers"
    [] kind = "WithErrorHandler" -> "ErrorHandler"
    [] kind = "WithExistingGRPCServer" -> "ExistingGRPCServer"
    [] kind = "WithExistingHTTPMux" -> "ExistingHTTPMux"

\* C26: with no option applied the configuration is the defaults (HTTP
\* mechanism, HTTP port 8080, gRPC port 50051, drain timeout 5s, per-checker
\* timeout 2s, empty registry), also when ApplyOptions returns it; and
\* applying one option changes only that option's own field.
C26_DefaultsAndFrame ==
  [][ /\ construction'.applied = <<>> =>
          /\ construction'.err = ""
          /\ construction'.cfg.CheckMechanism = "CheckHTTP"
          /\ construction'.cfg.HTTPPort = 8080
          /\ construction'.cfg.GRPCPort = 50051
          /\ construction'.cfg.ShutdownTimeout = 5
          /\ construction'.cfg.CheckerTimeout = 2
          /\ construction'.cfg.Checkers = <<>>
      /\ construction'.applied # construction.applied =>
          LET o == construction'.applied[Len(construction'.applied)]
          IN  \A f \in DOMAIN construction.cfg \ {FieldOf(o.kind)} :
                 construction'.cfg[f] = construction.cfg[f]
    ]_vars

\* three options of three kinds applied and returned: each field set by its
\* option, the HTTP port still the default
C26_Witness ==
  /\ construction.st = "returned" /\ construction.err = ""
  /\ {construction.applied[i].kind : i \in DOMAIN construction.applied}
       = {"WithGRPCPort", "WithShutdownTimeout", "WithChecker"}
  /\ construction.cfg.GRPCPort = MaxPort
  /\ construction.cfg.ShutdownTimeout = 30
  /\ construction.cfg.HTTPPort = DefaultHTTPPort
  /\ construction.cfg.CheckerTimeout = DefaultCheckerTimeout

\* C24: a new manager has ready, shuttingDown and started false, and each is
\* true only once its event has happened: a SetReady call has begun, a
\* shutdown trigger has fired, a Start has passed its bind (or attachment)
\* and reached the started-callback.
C24_FlagsFalseUntilEvent ==
  /\ ready => \E q \in ReadyCallers : pc[q] # "idle"
  /\ shuttingDown => \E p \in Starters : loc[p].kind # "none"
  /\ started => \E p \in Starters : ~BeforeCallback(p)

\* SetReady has been called, a Start has failed to bind and another waits
\* for its trigger: ready alone is true on one side, started alone on the
\* other
C24_Witness ==
  /\ ready /\ started /\ ~shuttingDown
  /\ \E p, o \in Starters :
       /\ pc[p] = "returned" /\ loc[p].ret = "bindError"
       /\ pc[o] = "waitTrigger"
  /\ \A p \in Starters : loc[p].kind = "none"

\* C25: a Shutdown called on the responder returns, whatever the responder's
\* state (before any Start, after a Start, after an earlier Shutdown), and
\* no step of a Shutdown called after an earlier Shutdown has run to its end
\* (and with no Start since) changes the responder or the lifecycle flags.
C25_ShutdownIdempotent ==
  /\ \A p \in Starters :
        (pc[p] = "probeShutdown" /\ loc[p].kind = "Shutdown")
           ~> (pc[p] = "returned")
  /\ [][\A p \in Starters :
          ( /\ loc[p].kind = "Shutdown" /\ loc[p].k = "second"
            /\ NoStartPending(p)
            /\ pc'[p] # pc[p] \/ gs'[p] # gs[p] )
          => UNCHANGED <<ready, shuttingDown, started, server, health, hstat,
                         hshut, muxRegistered, lnOwner, serving, inShutdown,
                         active>>]_vars

\* a Shutdown called after a Start's own shutdown had returned, on a
\* responder with a server (or the attached registry), has returned
C25_Witness ==
  \E p, o \in Starters :
     /\ pc[p] = "returned" /\ loc[p].kind = "Shutdown" /\ loc[p].k = "second"
     /\ pc[o] = "returned" /\ loc[o].kind \in {"Start", "StartContext"}
     /\ loc[o].ret # "bindError"
     /\ \/ server # Nil /\ inShutdown[server]
        \/ binding = "existingGRPC" /\ hshut[health]

\* the method lies under /grpc.health.v1.Health/
UnderHealth(m) ==
  /\ Len(m) >= 3
  /\ m[1] = "/" /\ m[2] = "grpc.health.v1.Health" /\ m[3] = "/"

\* C27: a request through LoggingUnaryInterceptor has called the wrapped
\* handler exactly once when it returns, and returns the handler's response
\* and error; a method under /grpc.health.v1.Health/ leaves no log record,
\* every other method leaves one INFO record, followed by one WARN record
\* exactly when the handler returned an error.  While the request runs the
\* handler has been called at most once.
C27_Interceptor ==
  /\ rpc.calls <= 1
  /\ rpc.st = "returned" =>
       /\ rpc.calls = 1
       /\ rpc.resp = rpc.hresp /\ rpc.err = rpc.herr
       /\ IF UnderHealth(rpc.method)
          THEN rpc.logs = <<>>
          ELSE /\ Len(rpc.logs) = IF rpc.herr = "nil" THEN 1 ELSE 2
               /\ rpc.logs[1].level = "INFO"
               /\ rpc.herr # "nil" => rpc.logs[2].level = "WARN"

\* a method that only resembles the health service, a handler that failed
\* with a response: both records, response and error passed through
C27_Witness ==
  /\ rpc.st = "returned"
  /\ rpc.method = <<"/", "grpc.health.v1.Health", "2", "/", "Check">>
  /\ rpc.resp = "reply" /\ rpc.err = "errors.New"
  /\ Len(rpc.logs) = 2 /\ rpc.logs[2].code = "Unknown"

\* the Start calls whose responder has been asked to stop and is draining
Draining == {p \in Starters : pc[p] \in {"httpPoll", "grpcSelect"}}

\* C28: the responder is asked to stop only after shuttingDown was set and
\* the state pushed, so while it drains shuttingDown is true and every probe
\* answered reports 'not alive' and 'not ready'.
C28_DrainReportsNegative ==
  Draining # {} => (shuttingDown /\ ~ReadyPositive /\ ~LivePositive)

\* C29: a fan-out launches one evaluation per registered checker, each
\* evaluation delivers at most one result, and the fan-out has returned only
\* when every evaluation has returned and its result has been received: no
\* early return on a failure, nothing left running, nothing left unread.
C29_FanOutJoinsAll ==
  \A r \in Slots :
     req[r].ev # <<>> =>
       /\ DOMAIN req[r].ev = DOMAIN checkers
       /\ Len(req[r].ch) + req[r].n
            = Cardinality({n \in DOMAIN req[r].ev :
                             req[r].ev[n].st = "returned"})
       /\ req[r].st = "done" =>
            /\ \A n \in DOMAIN req[r].ev : req[r].ev[n].st = "returned"
            /\ req[r].ch = <<>>
            /\ DOMAIN req[r].body = DOMAIN checkers

\* two checkers, one failing and one passing: 503 with both results
C29_Witness ==
  \E r \in Answered("/ready") :
     /\ req[r].code = 503
     /\ Cardinality(DOMAIN req[r].ev) = 2
     /\ \E n, m \in DOMAIN req[r].body :
          /\ req[r].body[n] = "error: boom"
          /\ req[r].body[m] = "ok"

\* C30: the context of a checker evaluation is derived from the request's
\* context and limited by the per-checker timeout: once the request's
\* context is done no evaluation's context is live and each carries the
\* error of whichever ended it first; a running evaluation's context is
\* cancelled only by the request; and the context of an evaluation that has
\* returned is never live.
C30_CheckerContext ==
  \A r \in Slots : \A n \in DOMAIN req[r].ev :
     LET e == req[r].ev[n] IN
       /\ req[r].cancelled # "" => e.ctx # "live"
       /\ e.st = "returned" => e.ctx # "live"
       /\ e.st = "running" <=> (e.ctx = "live")
       /\ (e.st = "ctxDone" /\ e.ctx = "Canceled") =>
             req[r].cancelled = "Canceled"
       /\ (e.st = "ctxDone" /\ req[r].cancelled = "") =>
             e.ctx = "DeadlineExceeded"

\* one fan-out, two evaluations: the per-checker timeout ended the first,
\* the cancellation of the request the second, and the answer names both
C30_Witness ==
  \E r \in Answered("/ready") :
     /\ req[r].cancelled = "Canceled"
     /\ \E n, m \in DOMAIN req[r].body :
          /\ req[r].body[n] = "error: context deadline exceeded"
          /\ req[r].body[m] = "error: context canceled"

\* C31: what Start / StartContext returns after the shutdown sequence does
\* not depend on how the drain ended: Start returns nil and StartContext the
\* error of its own context, whether the responder's stop finished in time
\* or was cut off by the deadline; no error of the stop is returned.
C31_TimeoutNotReported ==
  \A p \in Starters :
     (pc[p] = "returned" /\ loc[p].kind \in {"Start", "StartContext"}) =>
        loc[p].ret = IF loc[p].kind = "Start" THEN "nil" ELSE "ctx.Err()"

\* two Start calls have returned nil, one after a drain that finished, the
\* other after a drain cut off by the deadline
C31_Witness ==
  \E p, o \in Starters :
     /\ pc[p] = "returned" /\ pc[o] = "returned"
     /\ loc[p].kind = "Start" /\ loc[o].kind = "Start"
     /\ loc[p].sel = "done" /\ loc[o].sel = "ctx.Done"
     /\ loc[p].ret = "nil" /\ loc[o].ret = "nil"

\* C32: standalone bindings: an unexpected error of a serving loop is
\* delivered to the configured error callback, exactly when one is
\* configured; the result of a shutdown is not delivered.
C32_ServeErrorDelivered ==
  \A s \in Servers :
     /\ serveLoop.ret[s] = "accept error" =>
           (serveLoop.delivered[s] <=> serveLoop.handler)
     /\ serveLoop.ret[s] \in {"ErrServerClosed", "nil"} =>
           ~serveLoop.delivered[s]

\* C33: no step of the library takes the ready flag from true to false:
\* not SetReady, not Start, not the shutdown sequence, before, during or
\* after shutdown.
C33_ReadyNeverReset == [][ready => ready']_vars

\* ready is still true after a whole shutdown sequence that began with it
\* true
C33_Witness ==
  /\ ready /\ shuttingDown
  /\ \E p \in Starters :
       /\ pc[p] = "returned" /\ loc[p].ret = "nil" /\ loc[p].readyAtTrigger
  /\ \A q \in ReadyCallers : pc[q] = "returned"

\* C34: SetReady (and the SetState it makes) on a manager whose Start has
\* not been called yet neither panics nor is lost: once the later Start has
\* succeeded and no shutdown was triggered, the ready flag and the started
\* flag are set, every exposed gRPC registry reports the ready service
\* SERVING, and every GET /ready whose checkers all returned nil was
\* answered 200.
C34_EarlyReadyKept ==
  /\ \A t \in Threads : pc[t] # "panicked"
  /\ (pc[1] = "waitTrigger" /\ \A q \in ReadyCallers : pc[q] = "returned") =>
        /\ ready /\ started
        /\ IsGRPC => /\ Exposed # {}
                     /\ \A h \in Exposed : hstat[h]["ready"] = "SERVING"
        /\ ~IsGRPC => \A r \in Answered("/ready") :
                         AllReturnedNil(r) => req[r].code = 200

\* the standalone gRPC responder: SetState found no registry (it ran before
\* Start made one), and the Start that followed reports ready
C34_Witness ==
  /\ binding = "grpc" /\ pc[1] = "waitTrigger"
  /\ \A q \in ReadyCallers : pc[q] = "returned" /\ loc[q].hs = Nil
  /\ GRPCServing("ready")

\* C35: attached gRPC binding: in every state after the responder's
\* Shutdown has run (the registry is shut down) the ready, live and startup
\* services all report NOT_SERVING; a SetReady push or a Start push that
\* lands after it changes none of them.
C35_AttachedStaysDown ==
  (binding = "existingGRPC" /\ hshut[ExistingHealth]) =>
     \A svc \in Services : hstat[ExistingHealth][svc] = "NOT_SERVING"

\* the registry was shut down while a push of (ready, not shutting down)
\* had made its first call and still has "live SERVING" to write
C35_Witness ==
  /\ binding = "existingGRPC" /\ hshut[ExistingHealth]
  /\ \E q \in ReadyCallers :
        /\ pc[q] = "applyState" /\ loc[q].i = 2
        /\ loc[q].r /\ ~loc[q].s /\ loc[q].hs = ExistingHealth
  /\ \A svc \in Services : hstat[ExistingHealth][svc] = "NOT_SERVING"

\* C36: in every reachable state shuttingDown implies started, and a call
\* whose wait has ended (it entered the shutdown sequence) is a call whose
\* bind succeeded and that left a started manager: the manager never goes
\* from not started to draining or terminated.
C36_DrainingOnlyAfterStarted ==
  /\ shuttingDown => started
  /\ \A p \in Starters :
        loc[p].kind \in {"Start", "StartContext"} =>
           started /\ loc[p].ret # "bindError"

\* one call is in its shutdown sequence while the other failed to bind
\* and returned without entering it
C36_Witness ==
  /\ shuttingDown /\ started
  /\ \E p, o \in Starters :
        /\ pc[p] = "returned" /\ loc[p].ret = "bindError"
        /\ loc[p].kind = "none"
        /\ loc[o].kind \in {"Start", "StartContext"}
        /\ pc[o] \in {"shutdownLoad", "withTimeout", "probeShutdown"}

\* C37: a readiness or liveness probe is answered positively only when
\* started is true: a gRPC registry a client can reach reports ready or
\* live SERVING only then, and a GET /ready or GET /live was answered 200
\* only then (started is never reset, so it held at the latest now).
C37_PositiveOnlyWhenStarted ==
  /\ (IsGRPC /\ (GRPCServing("ready") \/ GRPCServing("live"))) => started
  /\ \A r \in Answered("/ready") \cup Answered("/live") :
        req[r].code = 200 => started

\* C38: standalone bindings: a Start whose bind failed leaves the recorded
\* server handle alone, so while another call's server is listening the
\* handle is that server, and once a shutdown sequence has run and every
\* call has returned no server is listening any more.
C38_FailedBindKeepsHandle ==
  /\ \A p, o \in Starters :
        (Standalone /\ pc[p] = "returned" /\ loc[p].ret = "bindError"
           /\ lnOwner = o /\ serving[o] /\ pc[o] = "waitTrigger")
          => server = o
  /\ (Standalone /\ (\A p \in Starters : pc[p] = "returned")
        /\ \E o \in Starters : loc[o].kind \in {"Start", "StartContext"})
       => (lnOwner = Nil /\ \A s \in Servers : ~serving[s])

\* C39: a manager built from options has exactly one responder variant,
\* chosen by precedence: attached gRPC when a gRPC server was given, else
\* attached HTTP when a mux was given, else standalone gRPC when the
\* mechanism is the health protocol, else standalone HTTP; with an attached
\* variant no Start ever reaches net.Listen, records a server or holds a
\* listener.
C39_VariantPrecedence ==
  (construction.st = "manager" /\ construction.sel # <<>>) =>
    LET mech == construction.sel[1]
        grpc == construction.sel[2]
        mux  == construction.sel[3]
    IN  /\ binding = "existingGRPC" <=> grpc
        /\ binding = "existingHTTP" <=> (~grpc /\ mux)
        /\ binding = "grpc" <=> (~grpc /\ ~mux /\ mech = "CheckGRPC")
        /\ binding = "http" <=> (~grpc /\ ~mux /\ mech = "CheckHTTP")
        /\ binding \in {"existingGRPC", "existingHTTP"} =>
              /\ lnOwner = Nil /\ server = Nil
              /\ \A s \in Servers : ~serving[s]
              /\ \A p \in Starters : pc[p] # "listen"

\* both a gRPC server and a mux were given with the health protocol: the
\* attached gRPC responder was started and nothing was bound
C39_Witness ==
  /\ construction.st = "manager"
  /\ construction.sel = <<"CheckGRPC", TRUE, TRUE>>
  /\ binding = "existingGRPC"
  /\ pc[1] = "waitTrigger" /\ started
  /\ lnOwner = Nil /\ server = Nil

====
